---- MODULE Spec2Model ----
(***************************************************************************)
(* Crawl orchestration of the driving-school scraper:                      *)
(* IncrementalScraper.run_incremental_scrape, its store operations         *)
(* save_schools_batch / get_completed_cities, the signal handler and the   *)
(* RijlessenNLScraper fetch / parse / detail steps it drives.              *)
(***************************************************************************)
EXTENDS Integers, Sequences, FiniteSets, TLC

\* ------------------------------------------------------------------ bounds
NumUnits == 2     \* city pages the root page can link to
MaxBatch == 2     \* schools a city page can list
MaxRuns  == 2     \* consecutive process runs over the same database

\* ------------------------------------------------------------- value sets
Units     == 1..NumUnits                 \* city URLs
Names     == {"n1"}                      \* school names (h3 texts, >= 3 chars)
Addresses == {"a1", "a2"}                \* address strings
Rates     == {85, 150}                   \* percentages a detail page can show

\* An optional value: <<>> is absent, <<v>> is the value v.
None    == <<>>
Some(v) == <<v>>
Opt(S) == {None} \cup {Some(v) : v \in S}

\* Sequences over S of length 0..n
SeqsUpTo(S, n) == UNION {[1..m -> S] : m \in 0..n}
Range(s) == {s[x] : x \in DOMAIN s}

\* ------------------------------------------------------------------- state
VARIABLES
    pc,               \* position of the main flow
    should_stop,      \* IncrementalScraper.should_stop
    city_links,       \* discovered units, in iteration order
    completed_cities, \* set loaded from scrape_progress at the start of the run
    city_index,       \* loop variable i of "for i, city_url in enumerate(city_links, 1)"
    schools,          \* batch parsed from the current city page
    enhanced_schools, \* batch handed to save_schools_batch
    school_index,     \* position of "for school in schools"
    store,            \* table driving_schools: set of rows, unique on (name, address)
    progress,         \* table scrape_progress: city_url -> record
    ret,              \* return value of run_incremental_scrape (None while running)
    exit_status,      \* process exit status (None while running)
    run,              \* number of the current process run
    inflight,         \* HTTP requests issued and not yet returned
    unit_state,       \* per unit outcome in this run
    fetched,          \* units whose city page was requested in this run
    late_fetches,     \* city/detail requests issued in this run while should_stop was set
    progress0,        \* scrape_progress as it was when this run started
    store0,           \* driving_schools as it was when this run started
    failed_prev,      \* units whose city-page fetch failed in the previous run
    stop_phase        \* where the main flow was when the stop flag was set

\* The entity sinks on their own (the persist operations of the three programs)
VARIABLES
    backend,          \* program that owns the database
    driving_schools,  \* table driving_schools with all modelled columns
    next_id,          \* next value of the id sequence (SERIAL / AUTOINCREMENT)
    db_now,           \* CURRENT_TIMESTAMP / datetime.utcnow() of the last call
    last_batch,       \* list of schools handed to the last persist call
    persist_calls     \* persist calls made so far

sink_vars == <<backend, driving_schools, next_id, db_now, last_batch, persist_calls>>

\* A call of a DataValidator / DataDeduplicator function on its own
VARIABLES
    arg,              \* the value the function is called with
    fn,               \* name of the function called ("" before the call)
    result,           \* what the call returned (None before the call)
    again             \* what the second call returned: the function on its own
                      \* result, or on the two arguments exchanged

call_vars == <<arg, fn, result, again>>

\* Persist calls of the orchestrator that failed in the store
VARIABLES
    save_failed       \* <<run, unit>> of every save_schools_batch call whose
                      \* transaction raised

fault_vars == <<save_failed>>

\* run_scraper of main.py, from the list scraper.scrape() returned to the
\* deduplicated list that is handed to the storage
VARIABLES
    run_pc,           \* position of run_scraper
    scrape_result,    \* "schools": the list as scraper.scrape() returned it
    school_pos,       \* position of "for school in schools" (1-based)
    current_school,   \* the school of the loop as validate_school / clean_school
                      \* left it (None before the first one)
    valid_schools,    \* the validated and cleaned schools
    duplicate_groups, \* what find_duplicates returned (None before the call)
    all_schools       \* the list that is saved

run_vars == <<run_pc, scrape_result, school_pos, current_school, valid_schools,
              duplicate_groups, all_schools>>

\* State of the components the crawl orchestration does not run
outside_vars == <<sink_vars, call_vars, fault_vars, run_vars>>

vars == <<pc, should_stop, city_links, completed_cities, city_index, schools,
          enhanced_schools, school_index, store, progress, ret, exit_status, run,
          inflight, unit_state, fetched, late_fetches, progress0, store0, failed_prev,
          stop_phase>>

\* ------------------------------------------------------------ ScrapedSchool
\* success_rate is no field of the dataclass: the attribute exists only after
\* _scrape_school_details assigned it.  None here means "attribute missing".
ScrapedSchool(name, address, detail) ==
    [name |-> name, address |-> address, detail |-> detail, success_rate |-> None]

Key(s) == <<s.name, s.address>>
Keys(ss) == {Key(ss[x]) : x \in DOMAIN ss}
StoreKeys(st) == {Key(r) : r \in st}

\* Everything _parse_school_from_city_page can return for a city page.
ListingSchools == {ScrapedSchool(n, a, d) : n \in Names, a \in Addresses, d \in BOOLEAN}
ListingBatches == SeqsUpTo(ListingSchools, MaxBatch)

\* Everything _parse_city_links can return: list(set(...)), so no duplicates,
\* any order, possibly empty.
Discoveries == {s \in SeqsUpTo(Units, NumUnits) :
                  \A x, y \in DOMAIN s : x # y => s[x] # s[y]}

\* What the patterns of _scrape_school_details find on a detail page.
DetailPages == [address : {None} \cup {Some(a) : a \in Addresses},
                rate    : {None} \cup {Some(r) : r \in Rates}]

\* ------------------------------------------------ RijlessenNLScraper steps
\* _scrape_school_details after a successful detail fetch: the address is
\* overwritten when an address pattern matches, success_rate is assigned only
\* when a pattern matches and the value is within 0..100.
scrape_school_details(school, page) ==
    LET a == IF page.address # None THEN page.address[1] ELSE school.address
        r == IF page.rate # None /\ 0 <= page.rate[1] /\ page.rate[1] <= 100
             THEN page.rate ELSE school.success_rate
    IN  [school EXCEPT !.address = a, !.success_rate = r]

\* ---------------------------------------------------- store (SQL) semantics
\* INSERT INTO driving_schools ... ON CONFLICT (name, address) DO UPDATE SET ...
UpsertSchool(st, s) ==
    IF Key(s) \in StoreKeys(st)
    THEN {IF Key(r) = Key(s) THEN [r EXCEPT !.success_rate = s.success_rate] ELSE r
            : r \in st}
    ELSE st \cup {[name |-> s.name, address |-> s.address,
                   success_rate |-> s.success_rate]}

\* conn.execute(text(insert_sql), batch_data): the rows one after the other
RECURSIVE UpsertAll(_, _)
UpsertAll(st, ss) ==
    IF ss = <<>> THEN st ELSE UpsertAll(UpsertSchool(st, Head(ss)), Tail(ss))

\* INSERT INTO scrape_progress ... ON CONFLICT (city_url) DO UPDATE SET
\*   schools_found = EXCLUDED.schools_found, completed_at = CURRENT_TIMESTAMP
UpsertProgress(pr, city_url, idx, total, found, now) ==
    IF city_url \in DOMAIN pr
    THEN [pr EXCEPT ![city_url].schools_found = found, ![city_url].completed_at = now]
    ELSE pr @@ (city_url :> [city_index |-> idx, total_cities |-> total,
                             schools_found |-> found, completed_at |-> now])

\* Building batch_data reads school.success_rate of every school: a school on
\* which the attribute was never assigned raises AttributeError inside the try.
BatchDataRaises(ss) == \E x \in DOMAIN ss : ss[x].success_rate = None

\* IncrementalScraper.save_schools_batch: the tables after the call and the
\* returned saved_count.  Both inserts are one transaction, committed at the end;
\* an exception before the commit leaves both tables as they were.
save_schools_batch(st, pr, ss, city_url, idx, total, now) ==
    IF ss = <<>>
    THEN [store |-> st, progress |-> pr, saved_count |-> 0]
    ELSE IF BatchDataRaises(ss)
    THEN [store |-> st, progress |-> pr, saved_count |-> 0]
    ELSE [store |-> UpsertAll(st, ss),
          progress |-> UpsertProgress(pr, city_url, idx, total, Len(ss), now),
          saved_count |-> Len(ss)]

\* Mutant of get_completed_cities: the stored progress is not read
get_completed_cities_forgets(pr) == {}

\* IncrementalScraper.get_completed_cities: SELECT city_url FROM scrape_progress.
\* The query is taken to answer; the bare except that turns a failing query into
\* the empty set (lines 173-174) is a store fault and no step of Spec.
get_completed_cities(pr) == DOMAIN pr

\* ------------------------------------------------------------------- Init
NoRequests == {}
ReqRoot == <<"root", 0, 0>>
ReqCity(u) == <<"city", u, 0>>
ReqDetail(u, x) == <<"detail", u, x>>

RunLocalsInit ==
    /\ pc = "start"
    /\ should_stop = FALSE
    /\ city_links = <<>>
    /\ completed_cities = {}
    /\ city_index = 0
    /\ schools = <<>>
    /\ enhanced_schools = <<>>
    /\ school_index = 0
    /\ ret = None
    /\ exit_status = None
    /\ inflight = NoRequests
    /\ unit_state = [u \in Units |-> "Pending"]
    /\ fetched = {}
    /\ late_fetches = 0
    /\ stop_phase = "none"

\* The orchestrator before its first step
OrchestratorInit ==
    /\ RunLocalsInit
    /\ store = {}
    /\ progress = <<>>
    /\ run = 1
    /\ progress0 = <<>>
    /\ store0 = {}
    /\ failed_prev = {}

\* No database of the stand-alone sinks is open
SinkIdle ==
    /\ backend = "none"
    /\ driving_schools = {}
    /\ next_id = 1
    /\ db_now = 0
    /\ last_batch = <<>>
    /\ persist_calls = 0

\* No validator call is under way
CallIdle ==
    /\ arg = None
    /\ fn = ""
    /\ result = None
    /\ again = None

\* No persist call has failed
FaultIdle == save_failed = {}

\* run_scraper is not running
RunScraperIdle ==
    /\ run_pc = "idle"
    /\ scrape_result = <<>>
    /\ school_pos = 0
    /\ current_school = None
    /\ valid_schools = <<>>
    /\ duplicate_groups = None
    /\ all_schools = <<>>

Init ==
    /\ OrchestratorInit
    /\ SinkIdle
    /\ CallIdle
    /\ FaultIdle
    /\ RunScraperIdle

Late == IF should_stop THEN late_fetches + 1 ELSE late_fetches
CityUrl == city_links[city_index]

\* Positions of the main flow inside the enhancement loop (lines 241-251)
Enhancing == {"enh_top", "enh_url", "detail_inflight"}

\* ---------------------------------------------------------- signal handler
\* IncrementalScraper._signal_handler (installed by __init__): runs between any
\* two steps of the main flow, also while a request is in flight; it only sets
\* the flag.
signal_handler ==
    /\ pc # "exited"
    /\ ~should_stop
    /\ should_stop' = TRUE
    /\ stop_phase' = IF pc \in Enhancing THEN "enhancing" ELSE "other"
    /\ UNCHANGED <<pc, city_links, completed_cities, city_index, schools,
                   enhanced_schools, school_index, store, progress, ret, exit_status,
                   run, inflight, unit_state, fetched, late_fetches, progress0, store0,
                   failed_prev>>
    /\ UNCHANGED outside_vars

\* ------------------------------------------------- run_incremental_scrape
\* One action per stretch of the main flow between two points at which the
\* signal handler can run with a visible effect.  The pacing sleeps (lines 249
\* and 264) and the telemetry (lines 266-274) change no state and are part of
\* the step that precedes them.
\* lines 176-200: set up, then request the root listing page
FetchRoot ==
    /\ pc = "start"
    /\ pc' = "root_inflight"
    /\ inflight' = inflight \cup {ReqRoot}
    /\ UNCHANGED <<should_stop, city_links, completed_cities, city_index, schools,
                   enhanced_schools, school_index, store, progress, ret, exit_status,
                   run, unit_state, fetched, late_fetches, progress0, store0,
                   failed_prev, stop_phase>>
    /\ UNCHANGED outside_vars

\* lines 200-203: _fetch_page returned None for the root page
RootFetchFailed ==
    /\ pc = "root_inflight"
    /\ inflight' = inflight \ {ReqRoot}
    /\ ret' = Some(FALSE)
    /\ pc' = "returned"
    /\ UNCHANGED <<should_stop, city_links, completed_cities, city_index, schools,
                   enhanced_schools, school_index, store, progress, exit_status, run,
                   unit_state, fetched, late_fetches, progress0, store0,
                   failed_prev, stop_phase>>
    /\ UNCHANGED outside_vars

\* lines 205-212: the root page arrived; _parse_city_links; no links is fatal
RootFetched ==
    /\ pc = "root_inflight"
    /\ \E links \in Discoveries :
         /\ city_links' = links
         /\ IF links = <<>>
            THEN ret' = Some(FALSE) /\ pc' = "returned"
            ELSE ret' = ret /\ pc' = "load"
    /\ inflight' = inflight \ {ReqRoot}
    /\ UNCHANGED <<should_stop, completed_cities, city_index, schools,
                   enhanced_schools, school_index, store, progress, exit_status, run,
                   unit_state, fetched, late_fetches, progress0, store0,
                   failed_prev, stop_phase>>
    /\ UNCHANGED outside_vars

\* lines 214-219: load the completed set, enter the loop
LoadCompleted ==
    /\ pc = "load"
    /\ completed_cities' = get_completed_cities(progress)
    /\ city_index' = 1
    /\ pc' = "loop_top"
    /\ UNCHANGED <<should_stop, city_links, schools, enhanced_schools, school_index,
                   store, progress, ret, exit_status, run, inflight, unit_state,
                   fetched, late_fetches, progress0, store0,
                   failed_prev, stop_phase>>
    /\ UNCHANGED outside_vars

\* lines 219-222: next unit of the for loop; the stop flag is read here
LoopTop ==
    /\ pc = "loop_top"
    /\ IF city_index > Len(city_links) \/ should_stop
       THEN pc' = "stats"
       ELSE pc' = "city_check"
    /\ UNCHANGED <<should_stop, city_links, completed_cities, city_index, schools,
                   enhanced_schools, school_index, store, progress, ret, exit_status,
                   run, inflight, unit_state, fetched, late_fetches, progress0, store0,
                   failed_prev, stop_phase>>
    /\ UNCHANGED outside_vars

\* lines 224-231: skip a completed unit, else request its city page
CityCheck ==
    /\ pc = "city_check"
    /\ IF CityUrl \in completed_cities
       THEN /\ unit_state' = [unit_state EXCEPT ![CityUrl] = "Skipped"]
            /\ city_index' = city_index + 1
            /\ pc' = "loop_top"
            /\ UNCHANGED <<inflight, fetched, late_fetches>>
       ELSE /\ unit_state' = [unit_state EXCEPT ![CityUrl] = "Fetching"]
            /\ inflight' = inflight \cup {ReqCity(CityUrl)}
            /\ fetched' = fetched \cup {CityUrl}
            /\ late_fetches' = Late
            /\ pc' = "city_inflight"
            /\ UNCHANGED city_index
    /\ UNCHANGED <<should_stop, city_links, completed_cities, schools,
                   enhanced_schools, school_index, store, progress, ret, exit_status,
                   run, progress0, store0, failed_prev,
                   stop_phase>>
    /\ UNCHANGED outside_vars

\* Mutant of CityFetchFailed: a failed city page is recorded as a completed unit
\* with no schools
CityFetchFailed_records ==
    /\ pc = "city_inflight"
    /\ inflight' = inflight \ {ReqCity(CityUrl)}
    /\ unit_state' = [unit_state EXCEPT ![CityUrl] = "Failed"]
    /\ progress' = UpsertProgress(progress, CityUrl, city_index, Len(city_links), 0, run)
    /\ city_index' = city_index + 1
    /\ pc' = "loop_top"
    /\ UNCHANGED <<should_stop, city_links, completed_cities, schools,
                   enhanced_schools, school_index, store, ret, exit_status,
                   run, fetched, late_fetches, progress0, store0,
                   failed_prev, stop_phase>>
    /\ UNCHANGED outside_vars

\* lines 231-233: _fetch_page returned None for the city page: continue
CityFetchFailed ==
    /\ pc = "city_inflight"
    /\ inflight' = inflight \ {ReqCity(CityUrl)}
    /\ unit_state' = [unit_state EXCEPT ![CityUrl] = "Failed"]
    /\ city_index' = city_index + 1
    /\ pc' = "loop_top"
    /\ UNCHANGED <<should_stop, city_links, completed_cities, schools,
                   enhanced_schools, school_index, store, progress, ret, exit_status,
                   run, fetched, late_fetches, progress0, store0,
                   failed_prev, stop_phase>>
    /\ UNCHANGED outside_vars

\* lines 235-240 / 258: the city page arrived; _parse_school_from_city_page
CityFetched ==
    /\ pc = "city_inflight"
    /\ inflight' = inflight \ {ReqCity(CityUrl)}
    /\ \E batch \in ListingBatches :
         /\ schools' = batch
         /\ IF batch # <<>>
            THEN /\ enhanced_schools' = <<>>
                 /\ school_index' = 1
                 /\ pc' = "enh_top"
            ELSE /\ UNCHANGED <<enhanced_schools, school_index>>
                 /\ pc' = "save_empty"
    /\ unit_state' = [unit_state EXCEPT ![CityUrl] = "Enhancing"]
    /\ UNCHANGED <<should_stop, city_links, completed_cities, city_index, store,
                   progress, ret, exit_status, run, fetched, late_fetches, progress0,
                   store0, failed_prev, stop_phase>>
    /\ UNCHANGED outside_vars

\* Mutant of EnhanceTop: the school loop does not look at the stop flag
EnhanceTop_ignores_stop ==
    /\ pc = "enh_top"
    /\ IF school_index > Len(schools)
       THEN pc' = "save"
       ELSE pc' = "enh_url"
    /\ UNCHANGED <<should_stop, city_links, completed_cities, city_index, schools,
                   enhanced_schools, school_index, store, progress, ret, exit_status,
                   run, inflight, unit_state, fetched, late_fetches, progress0, store0,
                   failed_prev, stop_phase>>
    /\ UNCHANGED outside_vars

\* lines 241-243: next school of the batch; the stop flag is read here
EnhanceTop ==
    /\ pc = "enh_top"
    /\ IF school_index > Len(schools) \/ should_stop
       THEN pc' = "save"
       ELSE pc' = "enh_url"
    /\ UNCHANGED <<should_stop, city_links, completed_cities, city_index, schools,
                   enhanced_schools, school_index, store, progress, ret, exit_status,
                   run, inflight, unit_state, fetched, late_fetches, progress0, store0,
                   failed_prev, stop_phase>>
    /\ UNCHANGED outside_vars

\* Mutant of EnhanceUrl: the detail request is issued without waiting for its
\* response before the loop goes on
EnhanceUrl_no_wait ==
    /\ pc = "enh_url"
    /\ IF schools[school_index].detail
       THEN /\ inflight' = inflight \cup {ReqDetail(CityUrl, school_index)}
            /\ late_fetches' = Late
       ELSE UNCHANGED <<inflight, late_fetches>>
    /\ enhanced_schools' = Append(enhanced_schools, schools[school_index])
    /\ school_index' = school_index + 1
    /\ pc' = "enh_top"
    /\ UNCHANGED <<should_stop, city_links, completed_cities, city_index, schools,
                   store, progress, ret, exit_status, run, unit_state, fetched,
                   progress0, store0, failed_prev,
                   stop_phase>>
    /\ UNCHANGED outside_vars

\* lines 245-251 and 145-148: a school with a detail URL gets its detail page
\* requested, any other school is appended as it is
EnhanceUrl ==
    /\ pc = "enh_url"
    /\ IF schools[school_index].detail
       THEN /\ inflight' = inflight \cup {ReqDetail(CityUrl, school_index)}
            /\ late_fetches' = Late
            /\ pc' = "detail_inflight"
            /\ UNCHANGED <<enhanced_schools, school_index>>
       ELSE /\ enhanced_schools' = Append(enhanced_schools, schools[school_index])
            /\ school_index' = school_index + 1
            /\ pc' = "enh_top"
            /\ UNCHANGED <<inflight, late_fetches>>
    /\ UNCHANGED <<should_stop, city_links, completed_cities, city_index, schools,
                   store, progress, ret, exit_status, run, unit_state, fetched,
                   progress0, store0, failed_prev,
                   stop_phase>>
    /\ UNCHANGED outside_vars

\* lines 148-150, 248: the detail fetch failed, the school is kept as parsed
DetailFetchFailed ==
    /\ pc = "detail_inflight"
    /\ inflight' = inflight \ {ReqDetail(CityUrl, school_index)}
    /\ enhanced_schools' = Append(enhanced_schools, schools[school_index])
    /\ school_index' = school_index + 1
    /\ pc' = "enh_top"
    /\ UNCHANGED <<should_stop, city_links, completed_cities, city_index, schools,
                   store, progress, ret, exit_status, run, unit_state, fetched,
                   late_fetches, progress0, store0,
                   failed_prev, stop_phase>>
    /\ UNCHANGED outside_vars

\* lines 152-272, 248: the detail page arrived; the school object is updated in
\* place (it is the same object in schools and in enhanced_schools)
DetailFetched ==
    /\ pc = "detail_inflight"
    /\ inflight' = inflight \ {ReqDetail(CityUrl, school_index)}
    /\ \E page \in DetailPages :
         LET school == scrape_school_details(schools[school_index], page)
         IN  /\ schools' = [schools EXCEPT ![school_index] = school]
             /\ enhanced_schools' = Append(enhanced_schools, school)
    /\ school_index' = school_index + 1
    /\ pc' = "enh_top"
    /\ UNCHANGED <<should_stop, city_links, completed_cities, city_index, store,
                   progress, ret, exit_status, run, unit_state, fetched, late_fetches,
                   progress0, store0, failed_prev,
                   stop_phase>>
    /\ UNCHANGED outside_vars

\* The unit's state once save_schools_batch returned
AfterSave(pr) == IF CityUrl \in DOMAIN pr THEN "Persisted" ELSE "Unrecorded"

\* lines 253-257, 264: save the enhanced batch, then go on to the next unit
SaveBatch ==
    /\ pc = "save"
    /\ LET r == save_schools_batch(store, progress, enhanced_schools, CityUrl,
                                   city_index, Len(city_links), run)
       IN  /\ store' = r.store
           /\ progress' = r.progress
           /\ unit_state' = [unit_state EXCEPT ![CityUrl] = AfterSave(r.progress)]
    /\ city_index' = city_index + 1
    /\ pc' = "loop_top"
    /\ UNCHANGED <<should_stop, city_links, completed_cities, schools,
                   enhanced_schools, school_index, ret, exit_status, run, inflight,
                   fetched, late_fetches, progress0, store0,
                   failed_prev, stop_phase>>
    /\ UNCHANGED outside_vars

\* lines 258-264: no school on the page: save_schools_batch([], ...)
SaveEmpty ==
    /\ pc = "save_empty"
    /\ LET r == save_schools_batch(store, progress, <<>>, CityUrl,
                                   city_index, Len(city_links), run)
       IN  /\ store' = r.store
           /\ progress' = r.progress
           /\ unit_state' = [unit_state EXCEPT ![CityUrl] = AfterSave(r.progress)]
    /\ city_index' = city_index + 1
    /\ pc' = "loop_top"
    /\ UNCHANGED <<should_stop, city_links, completed_cities, schools,
                   enhanced_schools, school_index, ret, exit_status, run, inflight,
                   fetched, late_fetches, progress0, store0,
                   failed_prev, stop_phase>>
    /\ UNCHANGED outside_vars

\* lines 276-305: final statistics.  with_phones/total_count divides by the
\* number of stored rows: ZeroDivisionError on an empty table is caught by the
\* except clause, which returns False.
FinalStatistics ==
    /\ pc = "stats"
    /\ LET total_count == Cardinality(store)
       IN  ret' = IF total_count = 0 THEN Some(FALSE) ELSE Some(TRUE)
    /\ pc' = "returned"
    /\ UNCHANGED <<should_stop, city_links, completed_cities, city_index, schools,
                   enhanced_schools, school_index, store, progress, exit_status, run,
                   inflight, unit_state, fetched, late_fetches, progress0, store0,
                   failed_prev, stop_phase>>
    /\ UNCHANGED outside_vars

\* Mutant of main: the sys.exit(1) of the failure branch is missing
main_no_exit_code ==
    /\ pc = "returned"
    /\ exit_status' = Some(0)
    /\ pc' = "exited"
    /\ UNCHANGED <<should_stop, city_links, completed_cities, city_index, schools,
                   enhanced_schools, school_index, store, progress, ret, run, inflight,
                   unit_state, fetched, late_fetches, progress0, store0,
                   failed_prev, stop_phase>>
    /\ UNCHANGED outside_vars

\* lines 307-315: main() exits with status 1 when the run returned False
main ==
    /\ pc = "returned"
    /\ exit_status' = IF ret = Some(TRUE) THEN Some(0) ELSE Some(1)
    /\ pc' = "exited"
    /\ UNCHANGED <<should_stop, city_links, completed_cities, city_index, schools,
                   enhanced_schools, school_index, store, progress, ret, run, inflight,
                   unit_state, fetched, late_fetches, progress0, store0,
                   failed_prev, stop_phase>>
    /\ UNCHANGED outside_vars

\* The operator starts the program again on the same database.
NewRun ==
    /\ pc = "exited"
    /\ run < MaxRuns
    /\ run' = run + 1
    /\ failed_prev' = {u \in Units : unit_state[u] = "Failed"}
    /\ progress0' = progress
    /\ store0' = store
    /\ pc' = "start"
    /\ should_stop' = FALSE
    /\ city_links' = <<>>
    /\ completed_cities' = {}
    /\ city_index' = 0
    /\ schools' = <<>>
    /\ enhanced_schools' = <<>>
    /\ school_index' = 0
    /\ ret' = None
    /\ exit_status' = None
    /\ inflight' = NoRequests
    /\ unit_state' = [u \in Units |-> "Pending"]
    /\ fetched' = {}
    /\ late_fetches' = 0
    /\ stop_phase' = "none"
    /\ UNCHANGED <<store, progress>>
    /\ UNCHANGED outside_vars

Next ==
    \/ signal_handler
    \/ FetchRoot
    \/ RootFetchFailed
    \/ RootFetched
    \/ LoadCompleted
    \/ LoopTop
    \/ CityCheck
    \/ CityFetchFailed
    \/ CityFetched
    \/ EnhanceTop
    \/ EnhanceUrl
    \/ DetailFetchFailed
    \/ DetailFetched
    \/ SaveBatch
    \/ SaveEmpty
    \/ FinalStatistics
    \/ main
    \/ NewRun

Spec == Init /\ [][Next]_vars

\* ============================================================== strings
\* A Python str is the sequence of its characters; an Optional[str] is None or
\* Some(s), so None and the empty string Some(<<>>) are different values.
DigitChars == {"0", "1", "2", "3", "4", "5", "6", "7", "8", "9"}
UpperLetters ==
    <<"A", "B", "C", "D", "E", "F", "G", "H", "I", "J", "K", "L", "M", "N",
      "O", "P", "Q", "R", "S", "T", "U", "V", "W", "X", "Y", "Z">>
LowerLetters ==
    <<"a", "b", "c", "d", "e", "f", "g", "h", "i", "j", "k", "l", "m", "n",
      "o", "p", "q", "r", "s", "t", "u", "v", "w", "x", "y", "z">>
SpaceChars == {" ", "\t"}

IsDigit(c) == c \in DigitChars
IsSpace(c) == c \in SpaceChars
IsLetter(c) == \E i \in 1..26 : c = UpperLetters[i] \/ c = LowerLetters[i]

\* str.lower()
lower_char(c) ==
    IF \E i \in 1..26 : UpperLetters[i] = c
    THEN LowerLetters[CHOOSE i \in 1..26 : UpperLetters[i] = c]
    ELSE c
lower(s) == [i \in 1..Len(s) |-> lower_char(s[i])]

\* s[a:b] and s[a:] with 0 <= a
Slice(s, a, b) == SubSeq(s, a + 1, IF b < Len(s) THEN b ELSE Len(s))
SliceFrom(s, a) == SubSeq(s, a + 1, Len(s))

\* s.startswith(p), s.startswith((p1, p2, ...)) and "p in s"
StartsWith(s, p) == Len(s) >= Len(p) /\ SubSeq(s, 1, Len(p)) = p
StartsWithAny(s, ps) == \E p \in ps : StartsWith(s, p)
Contains(s, p) == \E i \in 0..(Len(s) - Len(p)) : SubSeq(s, i + 1, i + Len(p)) = p

\* "not s" for an Optional[str]
Falsy(s) == s = None \/ s = Some(<<>>)

\* re.sub(r'\D', '', s)
RECURSIVE digits_of(_)
digits_of(s) ==
    IF s = <<>> THEN <<>>
    ELSE IF IsDigit(Head(s)) THEN <<Head(s)>> \o digits_of(Tail(s))
    ELSE digits_of(Tail(s))

\* s.lstrip(), s.rstrip(), s.strip()
RECURSIVE lstrip(_)
lstrip(s) == IF s # <<>> /\ IsSpace(Head(s)) THEN lstrip(Tail(s)) ELSE s
RECURSIVE rstrip(_)
rstrip(s) ==
    IF s # <<>> /\ IsSpace(s[Len(s)]) THEN rstrip(SubSeq(s, 1, Len(s) - 1)) ELSE s
strip(s) == rstrip(lstrip(s))

\* s.split(): the maximal runs of non-whitespace characters (word is the run
\* being read)
RECURSIVE split_words(_, _)
split_words(s, word) ==
    IF s = <<>> THEN (IF word = <<>> THEN <<>> ELSE <<word>>)
    ELSE IF IsSpace(Head(s))
    THEN (IF word = <<>> THEN <<>> ELSE <<word>>) \o split_words(Tail(s), <<>>)
    ELSE split_words(Tail(s), Append(word, Head(s)))
split(s) == split_words(s, <<>>)

\* sep.join(words)
RECURSIVE join(_, _)
join(sep, words) ==
    IF words = <<>> THEN <<>>
    ELSE IF Len(words) = 1 THEN words[1]
    ELSE words[1] \o sep \o join(sep, Tail(words))

\* The pieces of a list of strings put one after the other
RECURSIVE Concat(_)
Concat(pieces) == IF pieces = <<>> THEN <<>> ELSE Head(pieces) \o Concat(Tail(pieces))

\* ======================================================== DataValidator
\* utils/validators.py.  Ratings are counted in tenths of a star.
MobileAndAreaPrefixes == {<<"0", "6">>, <<"0", "2", "0">>, <<"0", "3", "0">>, <<"0", "4", "0">>,
                          <<"0", "5", "0">>, <<"0", "7", "0">>, <<"0", "1", "0">>}
AreaCodes == {<<"0", "2", "0">>, <<"0", "3", "0">>, <<"0", "4", "0">>, <<"0", "5", "0">>,
              <<"0", "7", "0">>, <<"0", "1", "0">>}
ShortAreas == {<<"2", "0">>, <<"3", "0">>, <<"4", "0">>, <<"5", "0">>, <<"7", "0">>, <<"1", "0">>}
NamePrefixes == {<<"R", "i", "j", "s", "c", "h", "o", "o", "l">>,
                 <<"A", "u", "t", "o", "r", "i", "j", "s", "c", "h", "o", "o", "l">>,
                 <<"V", "e", "r", "k", "e", "e", "r", "s", "s", "c", "h", "o", "o", "l">>}

validate_phone(phone) ==
    IF Falsy(phone) THEN FALSE
    ELSE LET digits == digits_of(phone[1])
         IN  IF Len(digits) = 10 /\ StartsWithAny(digits, MobileAndAreaPrefixes)
             THEN TRUE
             ELSE IF Len(digits) = 11 /\ StartsWith(digits, <<"3", "1", "6">>)
             THEN TRUE
             ELSE IF Len(digits) = 12 /\ StartsWith(digits, <<"3", "1">>)
             THEN TRUE
             ELSE FALSE

\* validate_email_address: accepted is the verdict of the email_validator
\* library (syntax and deliverability of the domain) on a non-empty address.
validate_email_address(email, accepted) ==
    IF Falsy(email) THEN FALSE ELSE accepted

\* ---- url_pattern of validate_url, part by part (re.IGNORECASE)
IsAlnum(c) == IsLetter(c) \/ IsDigit(c)

\* s.split(sep) for a one-character separator (part is the piece being read)
RECURSIVE split_on(_, _, _)
split_on(s, sep, part) ==
    IF s = <<>> THEN <<part>>
    ELSE IF Head(s) = sep THEN <<part>> \o split_on(Tail(s), sep, <<>>)
    ELSE split_on(Tail(s), sep, Append(part, Head(s)))

\* [A-Z0-9](?:[A-Z0-9-]{0,61}[A-Z0-9])?
IsLabel(l) ==
    /\ Len(l) \in 1..63
    /\ IsAlnum(l[1])
    /\ IsAlnum(l[Len(l)])
    /\ \A i \in 1..Len(l) : IsAlnum(l[i]) \/ l[i] = "-"

\* [A-Z]{2,6}
IsTld(l) == Len(l) \in 2..6 /\ \A i \in 1..Len(l) : IsLetter(l[i])

\* (?:label\.)+tld
IsDottedName(h) ==
    LET parts == split_on(h, ".", <<>>)
    IN  /\ Len(parts) >= 2
        /\ IsTld(parts[Len(parts)])
        /\ \A i \in 1..(Len(parts) - 1) : IsLabel(parts[i])

\* (?:label\.)+tld\.?
IsDomain(h) ==
    \/ IsDottedName(h)
    \/ h # <<>> /\ h[Len(h)] = "." /\ IsDottedName(SubSeq(h, 1, Len(h) - 1))

\* \d{1,3}\.\d{1,3}\.\d{1,3}\.\d{1,3}
IsIp(h) ==
    LET parts == split_on(h, ".", <<>>)
    IN  /\ Len(parts) = 4
        /\ \A i \in 1..4 : /\ Len(parts[i]) \in 1..3
                           /\ \A j \in 1..Len(parts[i]) : IsDigit(parts[i][j])

IsHost(h) == IsDomain(h) \/ lower(h) = <<"l", "o", "c", "a", "l", "h", "o", "s", "t">> \/ IsIp(h)

\* (?::\d+)?
IsPort(s) ==
    \/ s = <<>>
    \/ Len(s) >= 2 /\ s[1] = ":" /\ \A i \in 2..Len(s) : IsDigit(s[i])

\* (?:/?|[/?]\S+)$
IsPath(s) ==
    \/ s = <<>>
    \/ s = <<"/">>
    \/ Len(s) >= 2 /\ s[1] \in {"/", "?"} /\ \A i \in 2..Len(s) : ~IsSpace(s[i])

\* ^https?://
SchemeLengths(url) ==
    {n \in {7, 8} : Len(url) >= n /\
        lower(SubSeq(url, 1, n)) \in {<<"h", "t", "t", "p", ":", "/", "/">>,
                                      <<"h", "t", "t", "p", "s", ":", "/", "/">>}}

validate_url(url) ==
    IF Falsy(url) THEN FALSE
    ELSE LET u == url[1]
         IN  \E a \in SchemeLengths(u) : \E b \in a..Len(u) : \E c \in b..Len(u) :
                 /\ IsHost(SubSeq(u, a + 1, b))
                 /\ IsPort(SubSeq(u, b + 1, c))
                 /\ IsPath(SubSeq(u, c + 1, Len(u)))

\* Mutant of validate_rating: the upper bound is exclusive
validate_rating_exclusive(rating) ==
    IF rating = None THEN TRUE ELSE 0 <= rating[1] /\ rating[1] < 50

validate_rating(rating) ==
    IF rating = None THEN TRUE ELSE 0 <= rating[1] /\ rating[1] <= 50

validate_success_rate(rate) ==
    IF rate = None THEN TRUE ELSE 0 <= rate[1] /\ rate[1] <= 100

\* re.sub(r'^(Rijschool|Autorijschool|Verkeersschool)\s+', '', name,
\* flags=re.IGNORECASE): one of the prefixes at the start, followed by
\* whitespace, is removed together with that whitespace -- once.
strip_name_prefix(name) ==
    LET found == {p \in NamePrefixes :
                    /\ StartsWith(lower(name), lower(p))
                    /\ Len(name) > Len(p)
                    /\ IsSpace(name[Len(p) + 1])}
    IN  IF found = {} THEN name
        ELSE LET p == CHOOSE q \in found : TRUE
             IN  lstrip(SliceFrom(name, Len(p)))

clean_name(name) ==
    IF Falsy(name) THEN <<>>
    ELSE strip(strip_name_prefix(join(<<" ">>, split(name[1]))))

\* Mutant of normalize_phone: the 11-digit branch cuts its groups one place
\* early
normalize_phone_early(phone) ==
    IF Falsy(phone) THEN <<>>
    ELSE LET digits == digits_of(phone[1])
         IN  IF Len(digits) = 10
             THEN IF StartsWith(digits, <<"0", "6">>)
                  THEN <<"+", "3", "1", " ", "6", " ">> \o
                       Slice(digits, 2, 4) \o <<" ">> \o Slice(digits, 4, 6) \o
                       <<" ">> \o Slice(digits, 6, 8) \o <<" ">> \o SliceFrom(digits, 8)
                  ELSE IF StartsWithAny(digits, AreaCodes)
                  THEN LET area_code == Slice(digits, 0, 3)
                           number == SliceFrom(digits, 3)
                       IN  <<"+", "3", "1", " ">> \o SliceFrom(area_code, 1) \o <<" ">> \o
                           Slice(number, 0, 3) \o <<" ">> \o SliceFrom(number, 3)
                  ELSE phone[1]
             ELSE IF Len(digits) = 11 /\ StartsWith(digits, <<"3", "1", "6">>)
             THEN <<"+", "3", "1", " ", "6", " ">> \o
                  Slice(digits, 2, 4) \o <<" ">> \o Slice(digits, 4, 6) \o <<" ">> \o
                  Slice(digits, 6, 8) \o <<" ">> \o SliceFrom(digits, 8)
             ELSE IF Len(digits) = 12 /\ StartsWith(digits, <<"3", "1">>)
             THEN IF digits[3] = "6"
                  THEN <<"+", "3", "1", " ", "6", " ">> \o
                       Slice(digits, 4, 6) \o <<" ">> \o Slice(digits, 6, 8) \o
                       <<" ">> \o Slice(digits, 8, 10) \o <<" ">> \o
                       SliceFrom(digits, 10)
                  ELSE LET area == IF Slice(digits, 2, 4) \in ShortAreas
                                   THEN Slice(digits, 2, 4) ELSE Slice(digits, 2, 5)
                           rest == SliceFrom(digits, Len(area) + 2)
                       IN  <<"+", "3", "1", " ">> \o area \o <<" ">> \o
                           Slice(rest, 0, 3) \o <<" ">> \o SliceFrom(rest, 3)
             ELSE phone[1]

normalize_phone(phone) ==
    IF Falsy(phone) THEN <<>>
    ELSE LET digits == digits_of(phone[1])
         IN  IF Len(digits) = 10
             THEN IF StartsWith(digits, <<"0", "6">>)
                  THEN <<"+", "3", "1", " ", "6", " ">> \o
                       Slice(digits, 2, 4) \o <<" ">> \o Slice(digits, 4, 6) \o
                       <<" ">> \o Slice(digits, 6, 8) \o <<" ">> \o SliceFrom(digits, 8)
                  ELSE IF StartsWithAny(digits, AreaCodes)
                  THEN LET area_code == Slice(digits, 0, 3)
                           number == SliceFrom(digits, 3)
                       IN  <<"+", "3", "1", " ">> \o SliceFrom(area_code, 1) \o <<" ">> \o
                           Slice(number, 0, 3) \o <<" ">> \o SliceFrom(number, 3)
                  ELSE phone[1]
             ELSE IF Len(digits) = 11 /\ StartsWith(digits, <<"3", "1", "6">>)
             THEN <<"+", "3", "1", " ", "6", " ">> \o
                  Slice(digits, 3, 5) \o <<" ">> \o Slice(digits, 5, 7) \o <<" ">> \o
                  Slice(digits, 7, 9) \o <<" ">> \o SliceFrom(digits, 9)
             ELSE IF Len(digits) = 12 /\ StartsWith(digits, <<"3", "1">>)
             THEN IF digits[3] = "6"
                  THEN <<"+", "3", "1", " ", "6", " ">> \o
                       Slice(digits, 4, 6) \o <<" ">> \o Slice(digits, 6, 8) \o
                       <<" ">> \o Slice(digits, 8, 10) \o <<" ">> \o
                       SliceFrom(digits, 10)
                  ELSE LET area == IF Slice(digits, 2, 4) \in ShortAreas
                                   THEN Slice(digits, 2, 4) ELSE Slice(digits, 2, 5)
                           rest == SliceFrom(digits, Len(area) + 2)
                       IN  <<"+", "3", "1", " ">> \o area \o <<" ">> \o
                           Slice(rest, 0, 3) \o <<" ">> \o SliceFrom(rest, 3)
             ELSE phone[1]

\* ------------------------------------------------- calls of DataValidator
MaxPhoneDigits == 13     \* longest digit string among the phone inputs
MaxNamePieces  == 5      \* pieces a name input is made of

Fill(c, n) == [i \in 1..n |-> c]

\* Digit strings by shape: a leading group that selects the branch, then one
\* digit repeated up to the length
PhoneLeads == {<<"0", "6">>, <<"0", "2", "0">>, <<"0", "1", "0">>, <<"0">>, <<"3", "1", "6">>,
               <<"3", "1">>, <<"3", "1", "2", "0">>, <<"3", "1", "6", "1">>, <<"3", "1", "5">>}
PhoneDigitStrings ==
    {p \o Fill(c, n - Len(p)) : p \in PhoneLeads, c \in {"1", "6"},
                                 n \in 9..MaxPhoneDigits}
\* ... written plainly, with a leading "+", or with a dash after two digits
PhoneInputs ==
    {None, Some(<<>>), Some(<<"a", "b", "c">>)} \cup
    {Some(d) : d \in PhoneDigitStrings} \cup
    {Some(<<"+">> \o d) : d \in PhoneDigitStrings} \cup
    {Some(Slice(d, 0, 2) \o <<"-">> \o SliceFrom(d, 2)) : d \in PhoneDigitStrings}

NamePieces == {<<"R", "i", "j", "s", "c", "h", "o", "o", "l">>,
               <<"A", "U", "T", "O", "R", "I", "J", "S", "C", "H", "O", "O", "L">>,
               <<"v", "e", "r", "k", "e", "e", "r", "s", "s", "c", "h", "o", "o", "l">>,
               <<"J", "a", "n", "s", "e", "n">>, <<" ">>, <<" ", "\t">>}
NameInputs ==
    {None} \cup {Some(Concat(ps)) : ps \in SeqsUpTo(NamePieces, MaxNamePieces)}

UrlSchemes == {<<"h", "t", "t", "p", ":", "/", "/">>, <<"H", "T", "T", "P", "S", ":", "/", "/">>,
               <<"f", "t", "p", ":", "/", "/">>}
UrlHosts == {<<"e", "x", "-", "1", ".", "n", "l">>, <<"w", "w", "w", ".", "e", "x", "-", "1", ".", "n", "l", ".">>,
             <<"l", "o", "c", "a", "l", "h", "o", "s", "t">>, <<"1", "2", "7", ".", "0", ".", "0", ".", "1">>, <<"e", "x">>,
             <<"-", "a", ".", "n", "l">>}
UrlPorts == {<<>>, <<":", "8", "0">>, <<":">>}
UrlPaths == {<<>>, <<"/">>, <<"/", "a">>, <<"/", "a", " ", "b">>, <<"?", "q">>, <<"x">>}
UrlInputs ==
    {None, Some(<<>>)} \cup
    {Some(s \o h \o p \o q) : s \in UrlSchemes, h \in UrlHosts, p \in UrlPorts,
                              q \in UrlPaths}

EmailInputs == {None, Some(<<>>), Some(<<"a", "@", "b", ".", "n", "l">>),
                Some(<<"a", "b">>)}
RatingInputs == Opt({-1, 0, 45, 50, 51, 75})
SuccessRateInputs == Opt({-1, 0, 85, 100, 101, 150})

CallArg(kind, value, accepted) ==
    [kind |-> kind, value |-> value, accepted |-> accepted]

CallInputs ==
    {CallArg("phone", v, TRUE) : v \in PhoneInputs} \cup
    {CallArg("name", v, TRUE) : v \in NameInputs} \cup
    {CallArg("url", v, TRUE) : v \in UrlInputs} \cup
    {CallArg("email", v, a) : v \in EmailInputs, a \in BOOLEAN} \cup
    {CallArg("rating", v, TRUE) : v \in RatingInputs} \cup
    {CallArg("success_rate", v, TRUE) : v \in SuccessRateInputs}

CallInit ==
    /\ OrchestratorInit
    /\ SinkIdle
    /\ FaultIdle
    /\ RunScraperIdle
    /\ arg \in CallInputs
    /\ fn = ""
    /\ result = None
    /\ again = None

\* One call of f on the argument
Call(kind, f, value) ==
    /\ fn = ""
    /\ arg.kind = kind
    /\ fn' = f
    /\ result' = Some(value)
    /\ UNCHANGED <<arg, again>>
    /\ UNCHANGED <<vars, sink_vars, fault_vars, run_vars>>

call_validate_phone == Call("phone", "validate_phone", validate_phone(arg.value))
call_validate_email_address ==
    Call("email", "validate_email_address",
         validate_email_address(arg.value, arg.accepted))
call_validate_url == Call("url", "validate_url", validate_url(arg.value))
call_validate_rating == Call("rating", "validate_rating", validate_rating(arg.value))
call_validate_success_rate ==
    Call("success_rate", "validate_success_rate", validate_success_rate(arg.value))
call_clean_name == Call("name", "clean_name", clean_name(arg.value))
call_normalize_phone == Call("phone", "normalize_phone", normalize_phone(arg.value))

\* The function called once more, on what it returned
CallAgain(f, value) ==
    /\ fn = f
    /\ again = None
    /\ again' = Some(value)
    /\ UNCHANGED <<arg, fn, result>>
    /\ UNCHANGED <<vars, sink_vars, fault_vars, run_vars>>

clean_name_again == CallAgain("clean_name", clean_name(result))
normalize_phone_again == CallAgain("normalize_phone", normalize_phone(result))

CallNext ==
    \/ call_validate_phone
    \/ call_validate_email_address
    \/ call_validate_url
    \/ call_validate_rating
    \/ call_validate_success_rate
    \/ call_clean_name
    \/ call_normalize_phone
    \/ clean_name_again
    \/ normalize_phone_again

SpecValidator == CallInit /\ [][CallNext]_<<vars, outside_vars>>

\* ===================================================== DataDeduplicator
\* A school as the dict calculate_similarity reads: school.get(key) is None
\* for a missing key.
SchoolDict(name, address, phone) ==
    [name |-> name, address |-> address, phone |-> phone]

\* Scores are kept exact, in hundredths: the float score / total_weight is the
\* ratio num / den.
Ratio(num, den) == [num |-> num, den |-> den]
RatioEq(x, y) == x.num * y.den = y.num * x.den

\* lines 139-147: the credit of the name comparison
name_credit(school1, school2) ==
    LET name1 == lower(clean_name(school1.name))
        name2 == lower(clean_name(school2.name))
    IN  IF name1 = name2 THEN 50
        ELSE IF Contains(name2, name1) \/ Contains(name1, name2) THEN 30
        ELSE 0

\* lines 150-158: the credit of the address comparison
address_credit(school1, school2) ==
    LET addr1 == lower(school1.address[1])
        addr2 == lower(school2.address[1])
    IN  IF addr1 = addr2 THEN 30
        ELSE IF \E word \in Range(split(addr1)) : Len(word) > 3 /\ Contains(addr2, word)
        THEN 15
        ELSE 0

\* lines 161-167: the credit of the phone comparison
phone_credit(school1, school2) ==
    IF digits_of(school1.phone[1]) = digits_of(school2.phone[1]) THEN 20 ELSE 0

\* Mutant of calculate_similarity: every weight counts, whether the field is
\* present on both sides or not
calculate_similarity_all_weights(school1, school2) ==
    LET name_both == ~Falsy(school1.name) /\ ~Falsy(school2.name)
        address_both == ~Falsy(school1.address) /\ ~Falsy(school2.address)
        phone_both == ~Falsy(school1.phone) /\ ~Falsy(school2.phone)
        score == (IF name_both THEN name_credit(school1, school2) ELSE 0)
                 + (IF address_both THEN address_credit(school1, school2) ELSE 0)
                 + (IF phone_both THEN phone_credit(school1, school2) ELSE 0)
    IN  Ratio(score, 100)

\* Mutant of calculate_similarity: the weight of a field is counted only when
\* the field earns a credit
calculate_similarity_matched_weights(school1, school2) ==
    LET name_both == ~Falsy(school1.name) /\ ~Falsy(school2.name)
        address_both == ~Falsy(school1.address) /\ ~Falsy(school2.address)
        phone_both == ~Falsy(school1.phone) /\ ~Falsy(school2.phone)
        name_score == IF name_both THEN name_credit(school1, school2) ELSE 0
        address_score == IF address_both THEN address_credit(school1, school2) ELSE 0
        phone_score == IF phone_both THEN phone_credit(school1, school2) ELSE 0
        score == name_score + address_score + phone_score
        total_weight == (IF name_score > 0 THEN 50 ELSE 0)
                        + (IF address_score > 0 THEN 30 ELSE 0)
                        + (IF phone_score > 0 THEN 20 ELSE 0)
    IN  IF total_weight > 0 THEN Ratio(score, total_weight) ELSE Ratio(0, 1)

calculate_similarity(school1, school2) ==
    LET name_both == ~Falsy(school1.name) /\ ~Falsy(school2.name)
        address_both == ~Falsy(school1.address) /\ ~Falsy(school2.address)
        phone_both == ~Falsy(school1.phone) /\ ~Falsy(school2.phone)
        score == (IF name_both THEN name_credit(school1, school2) ELSE 0)
                 + (IF address_both THEN address_credit(school1, school2) ELSE 0)
                 + (IF phone_both THEN phone_credit(school1, school2) ELSE 0)
        total_weight == (IF name_both THEN 50 ELSE 0)
                        + (IF address_both THEN 30 ELSE 0)
                        + (IF phone_both THEN 20 ELSE 0)
    IN  IF total_weight > 0 THEN Ratio(score, total_weight) ELSE Ratio(0, 1)

\* ------------------------------------------ calls of calculate_similarity
DictNames == {None, Some(<<"J", "a", "n", "s", "e", "n">>),
              Some(<<"R", "i", "j", "s", "c", "h", "o", "o", "l", " ", "j", "a", "n", "s", "e", "n">>),
              Some(<<"J", "a", "n">>)}
DictAddresses == {None, Some(<<"M", "e", "p", "p", "e", "l">>),
                  Some(<<"M", "e", "p", "p", "e", "l", "w", "e", "g", " ", "1">>),
                  Some(<<"D", "o", "r", "p", " ", "1">>)}
DictPhones == {None, Some(<<>>), Some(<<"0", "6", "-", "1">>), Some(<<"0", "6", "1">>),
               Some(<<"0", "6", "2">>)}
SchoolDicts ==
    {SchoolDict(n, a, ph) : n \in DictNames, a \in DictAddresses, ph \in DictPhones}

SimilarityInit ==
    /\ OrchestratorInit
    /\ SinkIdle
    /\ FaultIdle
    /\ RunScraperIdle
    /\ arg \in {CallArg("schools", <<school1, school2>>, TRUE) :
                  school1 \in SchoolDicts, school2 \in SchoolDicts}
    /\ fn = ""
    /\ result = None
    /\ again = None

\* find_duplicates line 187: calculate_similarity(school1, school2)
call_calculate_similarity ==
    Call("schools", "calculate_similarity",
         calculate_similarity(arg.value[1], arg.value[2]))

\* The same two schools met in the other order
call_calculate_similarity_swapped ==
    CallAgain("calculate_similarity", calculate_similarity(arg.value[2], arg.value[1]))

SimilarityNext ==
    \/ call_calculate_similarity
    \/ call_calculate_similarity_swapped

SpecSimilarity == SimilarityInit /\ [][SimilarityNext]_<<vars, outside_vars>>

\* ===================================================== the entity sinks
\* The persist operations of the three programs, each on its own database:
\* IncrementalScraper.save_schools_batch (PostgreSQL, incremental_scraper.py),
\* DataStorage.save_to_database (SQLAlchemy session, main.py) and
\* save_batch_to_sqlite (full_scrape_sqlite.py).  Rows carry their identity and
\* their timestamps here; phone and rating stand for the enrichment columns.
\* Ratings are counted in tenths of a star.
MaxPersists == 2     \* persist calls made on one database

Phones   == {"p1", "p2"}
Ratings  == {0, 45, 75}                \* 0.0, 4.5 and 7.5 stars
Backends == {"incremental_scraper", "main", "full_scrape_sqlite"}

\* ScrapedSchool with the fields the sinks store as enrichment
School(name, address, phone, rating) ==
    [name |-> name, address |-> address, phone |-> phone, rating |-> rating]

\* ----------------------------------------------- where a rating comes from
\* _parse_school_from_city_page: what r'(\d+\.?\d*)/5' finds in the block of a
\* school (nothing, or a number) becomes the rating as it is.
listing_rating(rating_match) ==
    IF rating_match # None THEN Some(rating_match[1]) ELSE None

\* What the three rating_patterns find on a detail page, in pattern order
DetailRatingMatches == [1..3 -> Opt(Ratings)]

\* _scrape_school_details, the rating loop from pattern k on: the first pattern
\* whose match lies within 0..5 sets the rating, otherwise it stays as it was.
RECURSIVE detail_rating(_, _, _)
detail_rating(rating, matches, k) ==
    IF k > Len(matches) THEN rating
    ELSE IF matches[k] # None /\ 0 <= matches[k][1] /\ matches[k][1] <= 50
    THEN matches[k]
    ELSE detail_rating(rating, matches, k + 1)

\* _scrape_school_details: the first phone found on the page, if any
detail_phone(phone, phone_match) ==
    IF phone_match # None THEN phone_match ELSE phone

\* A city-page block (the listing parse sets no phone) and a detail page
ListingBlocks == [name : Names, address : Addresses, rating : Opt(Ratings)]
DetailTexts == [phone : Opt(Phones), ratings : DetailRatingMatches]

parse_school_from_city_page(block) ==
    School(block.name, block.address, None, listing_rating(block.rating))

enhance_school(school, page) ==
    [school EXCEPT !.phone = detail_phone(school.phone, page.phone),
                   !.rating = detail_rating(school.rating, page.ratings, 1)]

\* Every school RijlessenNLScraper hands to a sink: parsed from a listing, then
\* enhanced from its detail page unless it has none or the fetch failed.
ScrapedSchools ==
    {parse_school_from_city_page(b) : b \in ListingBlocks} \cup
    {enhance_school(parse_school_from_city_page(b), d) : b \in ListingBlocks,
                                                          d \in DetailTexts}

\* EnhancedDataValidator.validate_school: a rating outside 0..5 is set to None
\* before run_scraper hands the school to save_to_database.
ValidatedSchools ==
    {[s EXCEPT !.rating = IF s.rating # None /\ s.rating # Some(0)
                             /\ ~validate_rating(s.rating)
                          THEN None ELSE s.rating] : s \in ScrapedSchools}

\* ------------------------------------------------------- persist operations
Row(id, s, created_at, updated_at) ==
    [id |-> id, name |-> s.name, address |-> s.address, phone |-> s.phone,
     rating |-> s.rating, created_at |-> created_at, updated_at |-> updated_at]

Matching(rows, s) == {r \in rows : Key(r) = Key(s)}

\* incremental_scraper.py insert_sql for one row of batch_data:
\* INSERT ... ON CONFLICT (name, address) DO UPDATE SET phone = EXCLUDED.phone,
\* ..., rating = EXCLUDED.rating, ..., updated_at = CURRENT_TIMESTAMP
insert_sql(rows, s, id, now) ==
    IF Matching(rows, s) # {}
    THEN {IF Key(r) = Key(s)
          THEN [r EXCEPT !.phone = s.phone, !.rating = s.rating,
                         !.updated_at = Some(now)]
          ELSE r : r \in rows}
    ELSE rows \cup {Row(id, s, Some(now), Some(now))}

\* conn.execute(text(insert_sql), batch_data): the rows one after the other; the
\* SERIAL default takes a sequence value for every row, conflict or not.
RECURSIVE execute_insert_sql(_, _, _, _)
execute_insert_sql(rows, ss, id, now) ==
    IF ss = <<>> THEN [rows |-> rows, next_id |-> id]
    ELSE execute_insert_sql(insert_sql(rows, Head(ss), id, now), Tail(ss), id + 1, now)

\* Python's "a or b" on an optional string / an optional number
or_str(a, b) == IF a # None /\ a # Some("") THEN a ELSE b
or_num(a, b) == IF a # None /\ a # Some(0) THEN a ELSE b

\* session.commit(): the objects added to the session become rows, in the order
\* they were added.  DrivingSchool has no created_at column.
RECURSIVE flush_pending(_, _, _, _)
flush_pending(rows, pending, id, now) ==
    IF pending = <<>> THEN [rows |-> rows, next_id |-> id]
    ELSE flush_pending(rows \cup {Row(id, Head(pending), None, Some(now))},
                       Tail(pending), id + 1, now)

\* main.py DataStorage.save_to_database from the school loop on: every table
\* the call can leave.  The session is made with autoflush=False, so the query
\* for an existing record sees the rows of the database and not the objects
\* added earlier in the same call; .first() takes any one of the matching rows.
RECURSIVE save_to_database(_, _, _, _, _)
save_to_database(rows, pending, ss, id, now) ==
    IF ss = <<>> THEN {flush_pending(rows, pending, id, now)}
    ELSE LET school == Head(ss)
         IN  IF Matching(rows, school) # {}
             THEN UNION {
                    save_to_database(
                        (rows \ {existing}) \cup
                            {[existing EXCEPT
                                !.phone = or_str(school.phone, existing.phone),
                                !.rating = or_num(school.rating, existing.rating),
                                !.updated_at = Some(now)]},
                        pending, Tail(ss), id, now)
                    : existing \in Matching(rows, school)}
             ELSE save_to_database(rows, Append(pending, school), Tail(ss), id, now)

\* full_scrape_sqlite.py: INSERT OR REPLACE on a table with UNIQUE(name, address)
\* ON CONFLICT REPLACE and id INTEGER PRIMARY KEY AUTOINCREMENT: the row that
\* holds the key is deleted and a new row is inserted, its id taken from the
\* sequence and created_at / updated_at from their defaults.
insert_or_replace(rows, s, id, now) ==
    (rows \ Matching(rows, s)) \cup {Row(id, s, Some(now), Some(now))}

\* save_batch_to_sqlite: one INSERT OR REPLACE per school
RECURSIVE save_batch_to_sqlite(_, _, _, _)
save_batch_to_sqlite(rows, ss, id, now) ==
    IF ss = <<>> THEN [rows |-> rows, next_id |-> id]
    ELSE save_batch_to_sqlite(insert_or_replace(rows, Head(ss), id, now),
                              Tail(ss), id + 1, now)

\* ------------------------------------------------------------- sink steps
\* The database is created by the program that uses it: create_database_schema,
\* DatabaseManager.create_tables or create_production_sqlite_db.
create_schema ==
    /\ backend = "none"
    /\ \E b \in Backends : backend' = b
    /\ UNCHANGED <<driving_schools, next_id, db_now, last_batch, persist_calls>>
    /\ UNCHANGED <<vars, call_vars, fault_vars, run_vars>>

\* The clock of the database between two calls
Clock == {db_now, db_now + 1}

\* IncrementalScraper.save_schools_batch with a non-empty batch whose schools
\* all carry a success_rate (the school rows; scrape_progress is not part of
\* this specification)
PersistIncremental ==
    /\ backend = "incremental_scraper"
    /\ persist_calls < MaxPersists
    /\ \E ss \in SeqsUpTo(ScrapedSchools, MaxBatch) \ {<<>>}, now \in Clock :
         LET r == execute_insert_sql(driving_schools, ss, next_id, now)
         IN  /\ driving_schools' = r.rows
             /\ next_id' = r.next_id
             /\ db_now' = now
             /\ last_batch' = ss
    /\ persist_calls' = persist_calls + 1
    /\ UNCHANGED backend
    /\ UNCHANGED <<vars, call_vars, fault_vars, run_vars>>

\* DataStorage.save_to_database, called by run_scraper when all_schools is not
\* empty
PersistMain ==
    /\ backend = "main"
    /\ persist_calls < MaxPersists
    /\ \E ss \in SeqsUpTo(ValidatedSchools, MaxBatch) \ {<<>>}, now \in Clock :
         \E r \in save_to_database(driving_schools, <<>>, ss, next_id, now) :
             /\ driving_schools' = r.rows
             /\ next_id' = r.next_id
             /\ db_now' = now
             /\ last_batch' = ss
    /\ persist_calls' = persist_calls + 1
    /\ UNCHANGED backend
    /\ UNCHANGED <<vars, call_vars, fault_vars, run_vars>>

\* save_batch_to_sqlite, called by run_full_scrape_with_sqlite when schools is
\* not empty
PersistSqlite ==
    /\ backend = "full_scrape_sqlite"
    /\ persist_calls < MaxPersists
    /\ \E ss \in SeqsUpTo(ScrapedSchools, MaxBatch) \ {<<>>}, now \in Clock :
         LET r == save_batch_to_sqlite(driving_schools, ss, next_id, now)
         IN  /\ driving_schools' = r.rows
             /\ next_id' = r.next_id
             /\ db_now' = now
             /\ last_batch' = ss
    /\ persist_calls' = persist_calls + 1
    /\ UNCHANGED backend
    /\ UNCHANGED <<vars, call_vars, fault_vars, run_vars>>

SinkNext ==
    \/ create_schema
    \/ PersistIncremental
    \/ PersistMain
    \/ PersistSqlite

SpecSink == Init /\ [][SinkNext]_<<vars, outside_vars>>

\* ================================== find_duplicates and merge_duplicates
\* A school as the dict run_scraper builds with school.__dict__, in the order
\* of the dataclass fields.  price_range, courses, source and scraped_at are
\* handled like url (not counted, filled when empty) and are left out.
SchoolRecord(name, url, address, phone, email, website, rating, review_count) ==
    [name |-> name, url |-> url, address |-> address, phone |-> phone,
     email |-> email, website |-> website, rating |-> rating,
     review_count |-> review_count]

NumberKeys == {"rating", "review_count"}

\* "if value": None, '' and 0 are false
Truthy(key, value) ==
    /\ value # None
    /\ IF key \in NumberKeys THEN value[1] # 0 ELSE value[1] # <<>>

\* threshold: float = 0.8, in hundredths
DefaultThreshold == 80

\* similarity >= threshold
AtLeast(similarity, threshold) == similarity.num * 100 >= threshold * similarity.den

\* Mutant of collect_group: a candidate is compared with the member that
\* joined the group last, not with the school that opened it
RECURSIVE collect_group_chained(_, _, _, _, _, _)
collect_group_chained(school_dicts, i, j, duplicate_group, processed, threshold) ==
    IF j >= Len(school_dicts) THEN [duplicate_group |-> duplicate_group, processed |-> processed]
    ELSE IF j \in processed
    THEN collect_group_chained(school_dicts, i, j + 1, duplicate_group, processed, threshold)
    ELSE IF AtLeast(calculate_similarity(
                        school_dicts[duplicate_group[Len(duplicate_group)] + 1],
                        school_dicts[j + 1]), threshold)
    THEN collect_group_chained(school_dicts, i, j + 1, Append(duplicate_group, j),
                               processed \cup {j}, threshold)
    ELSE collect_group_chained(school_dicts, i, j + 1, duplicate_group, processed, threshold)

\* find_duplicates lines 183-190, the inner loop from position j on: the
\* later schools that are not processed and reach the threshold against
\* school i join its group and are marked.  Indices count from 0.
RECURSIVE collect_group(_, _, _, _, _, _)
collect_group(school_dicts, i, j, duplicate_group, processed, threshold) ==
    IF j >= Len(school_dicts) THEN [duplicate_group |-> duplicate_group, processed |-> processed]
    ELSE IF j \in processed
    THEN collect_group(school_dicts, i, j + 1, duplicate_group, processed, threshold)
    ELSE IF AtLeast(calculate_similarity(school_dicts[i + 1], school_dicts[j + 1]), threshold)
    THEN collect_group(school_dicts, i, j + 1, Append(duplicate_group, j),
                       processed \cup {j}, threshold)
    ELSE collect_group(school_dicts, i, j + 1, duplicate_group, processed, threshold)

\* Mutant of find_duplicates_from: the members of a group are not marked as
\* processed
RECURSIVE find_duplicates_from_unmarked(_, _, _, _, _)
find_duplicates_from_unmarked(school_dicts, i, duplicates, processed, threshold) ==
    IF i >= Len(school_dicts) THEN duplicates
    ELSE LET g == collect_group(school_dicts, i, i + 1, <<i>>, {}, threshold)
         IN  IF Len(g.duplicate_group) > 1
             THEN find_duplicates_from_unmarked(school_dicts, i + 1,
                      Append(duplicates, g.duplicate_group), {}, threshold)
             ELSE find_duplicates_from_unmarked(school_dicts, i + 1, duplicates, {},
                                                threshold)

\* find_duplicates lines 177-194, the outer loop from position i on
RECURSIVE find_duplicates_from(_, _, _, _, _)
find_duplicates_from(school_dicts, i, duplicates, processed, threshold) ==
    IF i >= Len(school_dicts) THEN duplicates
    ELSE IF i \in processed
    THEN find_duplicates_from(school_dicts, i + 1, duplicates, processed, threshold)
    ELSE LET g == collect_group(school_dicts, i, i + 1, <<i>>, processed, threshold)
         IN  IF Len(g.duplicate_group) > 1
             THEN find_duplicates_from(school_dicts, i + 1,
                      Append(duplicates, g.duplicate_group),
                      g.processed \cup Range(g.duplicate_group), threshold)
             ELSE find_duplicates_from(school_dicts, i + 1, duplicates, g.processed,
                                       threshold)

find_duplicates(school_dicts, threshold) ==
    find_duplicates_from(school_dicts, 0, <<>>, {}, threshold)

\* merge_duplicates lines 210-218: the number of counted fields that are true
RECURSIVE CountTrue(_)
CountTrue(flags) ==
    IF flags = <<>> THEN 0
    ELSE (IF Head(flags) THEN 1 ELSE 0) + CountTrue(Tail(flags))
completeness_score(school) ==
    CountTrue(<<Truthy("name", school.name), Truthy("address", school.address),
                Truthy("phone", school.phone), Truthy("email", school.email),
                Truthy("website", school.website), Truthy("rating", school.rating),
                Truthy("review_count", school.review_count)>>)

\* lines 205-222: the member with the highest score, the earlier one on a tie
\* (best is the index chosen so far, -1 for none)
RECURSIVE best_of(_, _, _, _)
best_of(school_dicts, group, best, best_score) ==
    IF group = <<>> THEN best
    ELSE LET score == completeness_score(school_dicts[Head(group) + 1])
         IN  IF score > best_score
             THEN best_of(school_dicts, Tail(group), Head(group), score)
             ELSE best_of(school_dicts, Tail(group), best, best_score)

\* lines 227-229: the keys of best_school that are not true take the value of
\* school where that value is true
fill_from(best_school, school) ==
    [key \in DOMAIN best_school |->
        IF ~Truthy(key, best_school[key]) /\ Truthy(key, school[key])
        THEN school[key]
        ELSE best_school[key]]

\* lines 225-229: the members of the group, in group order
RECURSIVE fill_from_group(_, _, _)
fill_from_group(best_school, school_dicts, group) ==
    IF group = <<>> THEN best_school
    ELSE fill_from_group(fill_from(best_school, school_dicts[Head(group) + 1]), school_dicts,
                         Tail(group))

\* Mutant of merge_group: best_school is the member itself, not a copy of it
merge_group_in_place(school_dicts, group) ==
    LET best == best_of(school_dicts, group, -1, -1)
        merged == fill_from_group(school_dicts[best + 1], school_dicts, group)
    IN  [best_school |-> merged, school_dicts |-> [school_dicts EXCEPT ![best + 1] = merged]]

\* lines 203-231, one group: the merged record and the list as it is after
\* the merge (best_school is a copy, the list keeps its members)
merge_group(school_dicts, group) ==
    LET best == best_of(school_dicts, group, -1, -1)
    IN  [best_school |-> fill_from_group(school_dicts[best + 1], school_dicts, group),
         school_dicts |-> school_dicts]

RECURSIVE merge_groups(_, _, _)
merge_groups(school_dicts, groups, merged_schools) ==
    IF groups = <<>>
    THEN [merged_schools |-> merged_schools, school_dicts |-> school_dicts]
    ELSE LET m == merge_group(school_dicts, Head(groups))
         IN  merge_groups(m.school_dicts, Tail(groups),
                          Append(merged_schools, m.best_school))

\* lines 235-238: the schools of no group, in list order
RECURSIVE not_skipped(_, _, _)
not_skipped(school_dicts, i, to_skip) ==
    IF i >= Len(school_dicts) THEN <<>>
    ELSE (IF i \in to_skip THEN <<>> ELSE <<school_dicts[i + 1]>>)
         \o not_skipped(school_dicts, i + 1, to_skip)

\* merge_duplicates: the returned list, and the list it was given as it is
\* after the call
merge_duplicates(school_dicts, groups) ==
    LET m == merge_groups(school_dicts, groups, <<>>)
        to_skip == UNION {Range(groups[g]) : g \in DOMAIN groups}
    IN  [merged_schools |-> m.merged_schools \o not_skipped(m.school_dicts, 0, to_skip),
         school_dicts |-> m.school_dicts]

\* ------------------------- calls of find_duplicates and merge_duplicates
\* The strings the schools below are made of
Jansen == <<"J", "a", "n", "s", "e", "n">>
Jan == <<"J", "a", "n">>
MobileA == <<"0", "6", "1", "2", "3", "4", "5", "6", "7", "8">>
MobileB == <<"0", "6", "8", "7", "6", "5", "4", "3", "2", "1">>
Meppel == <<"M", "e", "p", "p", "e", "l">>
AcmeDriving == <<"A", "c", "m", "e", " ", "D", "r", "i", "v", "i", "n", "g">>
BestDriving == <<"B", "e", "s", "t", " ", "D", "r", "i", "v", "i", "n", "g">>
DetailUrl == <<"/", "r", "-", "1">>
EmailA == <<"a", "@", "b", ".", "n", "l">>
EmailB == <<"c", "@", "d", ".", "n", "l">>
WebsiteA == <<"h", "t", "t", "p", "s", ":", "/", "/", "e", "x", "-", "1", ".", "n", "l">>

MaxSchools == 4      \* schools in the list handed to find_duplicates

\* Schools that differ in what calculate_similarity reads
DedupPhones == {MobileA, MobileB}
ComparedSchools ==
    {SchoolRecord(Some(Jansen), None, Some(Meppel), ph, None, None, None, None) :
        ph \in Opt(DedupPhones)} \cup
    {SchoolRecord(Some(Jan), None, Some(Meppel), Some(MobileA), None, None, None, None)} \cup
    {SchoolRecord(Some(n), None, None, Some(MobileA), None, None, None, None) :
        n \in {AcmeDriving, BestDriving}} \cup
    {SchoolRecord(Some(AcmeDriving), None, None, None, None, None, None, None)}

\* Schools of one name and address that differ in what merge_duplicates fills:
\* url, email, website, rating, review_count
FilledFields ==
    {<<None, None, None, Some(0), None>>,
     <<None, None, None, Some(45), Some(12)>>,
     <<Some(DetailUrl), Some(EmailA), None, None, Some(0)>>,
     <<None, Some(EmailA), Some(WebsiteA), Some(45), None>>}
FilledSchools ==
    {SchoolRecord(Some(Jansen), f[1], Some(Meppel), None, f[2], f[3], f[4], f[5]) :
        f \in FilledFields} \cup
    {SchoolRecord(Some(Jansen), None, Some(Meppel), Some(MobileB),
                  Some(EmailB), None, None, None)}

DedupSchools == ComparedSchools \cup FilledSchools

DedupInit ==
    /\ OrchestratorInit
    /\ SinkIdle
    /\ FaultIdle
    /\ RunScraperIdle
    /\ arg \in {CallArg("school_dicts", school_dicts, TRUE) :
                  school_dicts \in SeqsUpTo(DedupSchools, MaxSchools)}
    /\ fn = ""
    /\ result = None
    /\ again = None

\* run_scraper line 233: find_duplicates(school_dicts), threshold 0.8
call_find_duplicates ==
    Call("school_dicts", "find_duplicates", find_duplicates(arg.value, DefaultThreshold))

\* run_scraper line 237: merge_duplicates(school_dicts, groups)
call_merge_duplicates ==
    /\ result # None
    /\ result[1] # <<>>
    /\ CallAgain("find_duplicates", merge_duplicates(arg.value, result[1]))

DedupNext ==
    \/ call_find_duplicates
    \/ call_merge_duplicates

SpecDedup == DedupInit /\ [][DedupNext]_<<vars, outside_vars>>

\* ============================================== run_scraper (main.py)
\* str.capitalize(): the first character in upper case, the rest in lower case
upper_char(c) ==
    IF \E i \in 1..26 : LowerLetters[i] = c
    THEN UpperLetters[CHOOSE i \in 1..26 : LowerLetters[i] = c]
    ELSE c
capitalize(word) ==
    [i \in 1..Len(word) |-> IF i = 1 THEN upper_char(word[i]) ELSE lower_char(word[i])]

\* DataValidator.clean_address
clean_address(address) ==
    IF Falsy(address) THEN <<>>
    ELSE LET words == split(join(<<" ">>, split(address[1])))
         IN  strip(join(<<" ">>, [i \in 1..Len(words) |-> capitalize(words[i])]))

\* Mutant of validate_school: the rating is not looked at
validate_school_any_rating(school, accepted) ==
    IF Falsy(school.name) \/ strip(school.name[1]) = <<>>
    THEN [valid |-> FALSE, school |-> school]
    ELSE [valid |-> TRUE,
          school |-> [school EXCEPT
              !.phone = IF ~Falsy(school.phone) /\ ~validate_phone(school.phone)
                        THEN None ELSE school.phone,
              !.email = IF ~Falsy(school.email)
                           /\ ~validate_email_address(school.email, accepted)
                        THEN None ELSE school.email,
              !.website = IF ~Falsy(school.website) /\ ~validate_url(school.website)
                          THEN None ELSE school.website]]

\* EnhancedDataValidator.validate_school: what it returns and the school as it
\* is after the call.  accepted is the verdict of the email_validator library.
validate_school(school, accepted) ==
    IF Falsy(school.name) \/ strip(school.name[1]) = <<>>
    THEN [valid |-> FALSE, school |-> school]
    ELSE [valid |-> TRUE,
          school |-> [school EXCEPT
              !.phone = IF ~Falsy(school.phone) /\ ~validate_phone(school.phone)
                        THEN None ELSE school.phone,
              !.email = IF ~Falsy(school.email)
                           /\ ~validate_email_address(school.email, accepted)
                        THEN None ELSE school.email,
              !.website = IF ~Falsy(school.website) /\ ~validate_url(school.website)
                          THEN None ELSE school.website,
              !.rating = IF Truthy("rating", school.rating)
                            /\ ~validate_rating(school.rating)
                         THEN None ELSE school.rating]]

HttpPrefixes == {<<"h", "t", "t", "p", ":", "/", "/">>, <<"h", "t", "t", "p", "s", ":", "/", "/">>}

\* EnhancedDataValidator.clean_school
clean_school(school) ==
    [school EXCEPT
        !.name = IF ~Falsy(school.name) THEN Some(clean_name(school.name))
                 ELSE school.name,
        !.address = IF ~Falsy(school.address) THEN Some(clean_address(school.address))
                    ELSE school.address,
        !.phone = IF ~Falsy(school.phone) THEN Some(normalize_phone(school.phone))
                  ELSE school.phone,
        !.website = IF ~Falsy(school.website)
                       /\ ~StartsWithAny(school.website[1], HttpPrefixes)
                    THEN Some(<<"h", "t", "t", "p", "s", ":", "/", "/">> \o school.website[1])
                    ELSE school.website]

\* ---------------------------------------------- what scraper.scrape() returns
MaxScraped == 2      \* schools in the list scraper.scrape() returns

RijschoolJansen == <<"R", "i", "j", "s", "c", "h", "o", "o", "l", " ", "J", "a", "n", "s", "e", "n">>
AreaPhone == <<"0", "2", "0", "1", "2", "3", "4", "5", "6", "7">>
LongPhone == <<"1", "2", "3", "4", "5", "6", "7", "8", "9", "0">>
WebsiteNoTld == <<"h", "t", "t", "p", "s", ":", "/", "/", "e", "x">>
LowerAddress == <<"d", "o", "r", "p", "s", "s", "t", "r", "a", "a", "t", " ", " ", "1", " ", "m", "e", "p", "p", "e", "l">>

\* A school with a name, the url of its detail page and the address Meppel
ListedSchool(name) ==
    SchoolRecord(Some(name), Some(DetailUrl), Some(Meppel), None, None, None, None, None)

\* The listed school with one more field set, or with all of them
EnhancedSchools(name) ==
    {ListedSchool(name)} \cup
    {[ListedSchool(name) EXCEPT !.phone = Some(ph)] :
        ph \in {MobileA, AreaPhone, LongPhone}} \cup
    {[ListedSchool(name) EXCEPT !.email = Some(e)] : e \in {EmailA, <<>>}} \cup
    {[ListedSchool(name) EXCEPT !.website = Some(w)] : w \in {WebsiteA, WebsiteNoTld}} \cup
    {[ListedSchool(name) EXCEPT !.rating = Some(r)] : r \in {0, 45, 75}} \cup
    {[ListedSchool(name) EXCEPT !.review_count = Some(c)] : c \in {0, 12}} \cup
    {SchoolRecord(Some(name), Some(DetailUrl), Some(Meppel), Some(MobileA), Some(EmailA),
                  Some(WebsiteA), Some(45), Some(12))}

ScrapeResults ==
    EnhancedSchools(RijschoolJansen) \cup EnhancedSchools(Jansen) \cup
    {[ListedSchool(Jansen) EXCEPT !.address = a] : a \in {None, Some(LowerAddress)}} \cup
    {ListedSchool(n) : n \in {<<>>, <<" ">>}}

\* ------------------------------------------------------ steps of run_scraper
\* line 213: schools = scraper.scrape() has returned
RunScraperInit ==
    /\ OrchestratorInit
    /\ SinkIdle
    /\ CallIdle
    /\ FaultIdle
    /\ run_pc = "validate"
    /\ scrape_result \in SeqsUpTo(ScrapeResults, MaxScraped)
    /\ school_pos = 1
    /\ current_school = None
    /\ valid_schools = <<>>
    /\ duplicate_groups = None
    /\ all_schools = <<>>

\* lines 217-218, 221-222: validate_school(school); a rejected school is logged
\* and left out
ValidateSchool ==
    /\ run_pc = "validate"
    /\ school_pos <= Len(scrape_result)
    /\ \E accepted \in BOOLEAN :
          LET v == validate_school(scrape_result[school_pos], accepted)
          IN  /\ current_school' = Some(v.school)
              /\ IF v.valid
                 THEN run_pc' = "clean" /\ UNCHANGED school_pos
                 ELSE run_pc' = "validate" /\ school_pos' = school_pos + 1
    /\ UNCHANGED <<scrape_result, valid_schools, duplicate_groups, all_schools>>
    /\ UNCHANGED <<vars, sink_vars, call_vars, fault_vars>>

\* lines 219-220: cleaned_school = clean_school(school) is appended
CleanSchool ==
    /\ run_pc = "clean"
    /\ current_school' = Some(clean_school(current_school[1]))
    /\ valid_schools' = Append(valid_schools, clean_school(current_school[1]))
    /\ school_pos' = school_pos + 1
    /\ run_pc' = "validate"
    /\ UNCHANGED <<scrape_result, duplicate_groups, all_schools>>
    /\ UNCHANGED <<vars, sink_vars, call_vars, fault_vars>>

\* line 224: all_schools.extend(valid_schools), after the last school
ExtendAllSchools ==
    /\ run_pc = "validate"
    /\ school_pos > Len(scrape_result)
    /\ all_schools' = valid_schools
    /\ run_pc' = "dedup"
    /\ UNCHANGED <<scrape_result, school_pos, current_school, valid_schools, duplicate_groups>>
    /\ UNCHANGED <<vars, sink_vars, call_vars, fault_vars>>

\* lines 230-258: find_duplicates on the dicts of the schools and, when there
\* is a group, merge_duplicates; the list is then handed to the storage
\* (lines 261-271, PersistMain); nothing is saved from an empty list
Deduplicate ==
    /\ run_pc = "dedup"
    /\ IF all_schools = <<>>
       THEN /\ run_pc' = "done"
            /\ UNCHANGED <<duplicate_groups, all_schools>>
       ELSE LET groups == find_duplicates(all_schools, DefaultThreshold)
            IN  /\ duplicate_groups' = Some(groups)
                /\ all_schools' = IF groups # <<>>
                                  THEN merge_duplicates(all_schools, groups).merged_schools
                                  ELSE all_schools
                /\ run_pc' = "save"
    /\ UNCHANGED <<scrape_result, school_pos, current_school, valid_schools>>
    /\ UNCHANGED <<vars, sink_vars, call_vars, fault_vars>>

RunScraperNext ==
    \/ ValidateSchool
    \/ CleanSchool
    \/ ExtendAllSchools
    \/ Deduplicate

SpecRunScraper == RunScraperInit /\ [][RunScraperNext]_<<vars, outside_vars>>

\* ============================================ store faults of save_schools_batch
\* Mutant of SaveBatchFails: the schools inserted before the fault stay stored
SaveBatchFails_keeps_schools ==
    /\ pc = "save"
    /\ enhanced_schools # <<>>
    /\ ~BatchDataRaises(enhanced_schools)
    /\ save_failed' = save_failed \cup {<<run, CityUrl>>}
    /\ store' = UpsertAll(store, enhanced_schools)
    /\ unit_state' = [unit_state EXCEPT ![CityUrl] = AfterSave(progress)]
    /\ city_index' = city_index + 1
    /\ pc' = "loop_top"
    /\ UNCHANGED <<should_stop, city_links, completed_cities, schools,
                   enhanced_schools, school_index, progress, ret, exit_status, run,
                   inflight, fetched, late_fetches, progress0, store0,
                   failed_prev, stop_phase>>
    /\ UNCHANGED <<sink_vars, call_vars, run_vars>>

\* incremental_scraper.py lines 121-165 and 253-264: engine.connect(), one of the
\* two execute calls or conn.commit() raises.  The connection is left without a
\* commit, so neither table changes; "except Exception" logs the error,
\* save_schools_batch returns, and the loop goes on to the next unit.  An empty
\* batch returns at lines 93-94 before the store is touched, so it cannot fail here.
SaveBatchFails ==
    /\ pc = "save"
    /\ enhanced_schools # <<>>
    /\ save_failed' = save_failed \cup {<<run, CityUrl>>}
    /\ unit_state' = [unit_state EXCEPT ![CityUrl] = AfterSave(progress)]
    /\ city_index' = city_index + 1
    /\ pc' = "loop_top"
    /\ UNCHANGED <<should_stop, city_links, completed_cities, schools,
                   enhanced_schools, school_index, store, progress, ret, exit_status,
                   run, inflight, fetched, late_fetches, progress0, store0,
                   failed_prev, stop_phase>>
    /\ UNCHANGED <<sink_vars, call_vars, run_vars>>

\* The orchestrator on a store whose writes can fail
FaultNext ==
    \/ signal_handler
    \/ FetchRoot
    \/ RootFetchFailed
    \/ RootFetched
    \/ LoadCompleted
    \/ LoopTop
    \/ CityCheck
    \/ CityFetchFailed
    \/ CityFetched
    \/ EnhanceTop
    \/ EnhanceUrl
    \/ DetailFetchFailed
    \/ DetailFetched
    \/ SaveBatch
    \/ SaveBatchFails
    \/ SaveEmpty
    \/ FinalStatistics
    \/ main
    \/ NewRun

SpecStoreFault == Init /\ [][FaultNext]_<<vars, outside_vars>>

\* ================================================================= claims
Discovered == Range(city_links)
LoopLeft == pc \in {"stats", "returned", "exited"}
\* the for loop ran to the end of city_links (it was not left by break)
LoopExhausted == LoopLeft /\ city_links # <<>> /\ city_index > Len(city_links)

C2_FailedUnitRetried ==
    /\ [][pc = "city_inflight" /\ unit_state'[CityUrl] = "Failed"
            => /\ progress' = progress
               /\ store' = store
               /\ city_index' = city_index + 1
               /\ pc' = "loop_top"]_vars
    /\ [](pc \notin {"start", "root_inflight", "load"}
            => failed_prev \cap completed_cities = {})
    /\ [](LoopExhausted => failed_prev \cap Discovered \subseteq fetched)

\* C2 witness: a unit whose fetch failed in the previous run is requested again
C2_Witness ==
    /\ run > 1
    /\ failed_prev \cap fetched # {}

\* C3 -- A unit whose city page was fetched and lists no school gets a progress
\* record with schools_found = 0 in that iteration.
C3_EmptyUnitRecorded ==
    [][pc = "save_empty" /\ pc' = "loop_top"
         => /\ CityUrl \in DOMAIN progress'
            /\ progress'[CityUrl].schools_found = 0]_vars

\* C4 -- Whenever a progress record is written for a unit, every school
\* extracted from that unit's city page is in driving_schools.
C4_RecordMeansAllPersisted ==
    [][\A u \in Units :
         (u \in DOMAIN progress' /\ (u \notin DOMAIN progress \/ progress'[u] # progress[u]))
           => Keys(schools) \subseteq StoreKeys(store')]_vars

\* C5 -- When the stop flag is set while the batch of a unit is being enhanced,
\* every school extracted from that city page is in driving_schools when the
\* run ends.
C5_StopPersistsExtracted ==
    (pc = "exited" /\ stop_phase = "enhancing")
        => Keys(schools) \subseteq StoreKeys(store)

\* C6 (as claimed) -- once the stop flag is set, no further city-page or
\* detail-page request is started.
C6_NoFetchAfterStop == late_fetches = 0

\* C6 (amended) -- The stop flag is read at the top of the unit loop and before
\* each school of a batch: a check made after the flag is set starts no request
\* and leaves its loop; a request whose check had passed before the flag was set
\* is still started, so at most one city-page or detail-page request starts
\* after the flag is set; setting the flag does not interrupt a request in
\* flight; no later unit is requested.
C6_CooperativeStop ==
    /\ [](late_fetches <= 1)
    /\ [][~should_stop /\ should_stop' => pc' = pc /\ inflight' = inflight]_vars
    /\ [][should_stop /\ pc = "loop_top" => pc' \in {"loop_top", "stats"}]_vars
    /\ [][should_stop /\ pc = "enh_top" => pc' \in {"enh_top", "save"}]_vars
    /\ [][should_stop /\ fetched' \ fetched # {} => late_fetches = 0]_vars

\* C6 witness: the flag was set after a stop check had passed, one more request
\* went out, and the run left the loop before the end of city_links
C6_Witness ==
    /\ pc = "exited"
    /\ should_stop
    /\ late_fetches = 1
    /\ city_index <= Len(city_links)

\* C7 -- For a unit whose city page lists at least one school, with no stop
\* requested, the save step leaves every school of the batch in driving_schools
\* and a progress record with schools_found = size of the batch.
C7_BatchAndRecordPersisted ==
    [][pc = "save" /\ pc' = "loop_top" /\ ~should_stop
         => /\ Keys(schools) \subseteq StoreKeys(store')
            /\ CityUrl \in DOMAIN progress'
            /\ progress'[CityUrl].schools_found = Len(schools)]_vars

\* C8 -- Units are processed one at a time in the order of city_links: at most
\* one request is in flight, it belongs to the unit at city_index, every unit
\* before city_index has finished its iteration and every unit after it is
\* untouched; the tables are written only for the unit at city_index, with no
\* request in flight.
Finished == {"Persisted", "Skipped", "Failed", "Unrecorded"}
C9_FatalFailure ==
    /\ (pc \in {"returned", "exited"} /\ city_links = <<>>)
          => /\ ret = Some(FALSE)
             /\ fetched = {}
             /\ store = store0
             /\ progress = progress0
    /\ (pc = "exited" /\ city_links = <<>>) => exit_status = Some(1)

\* C9 witness: a fatal exit of a run that started on a filled database
C9_Witness ==
    /\ pc = "exited"
    /\ city_links = <<>>
    /\ store # {}
    /\ exit_status = Some(1)

\* C10 -- A run that discovered at least one unit exits with status 0 whatever
\* the per-unit outcomes and whatever driving_schools holds at the end.
C10_DiscoveredRunSucceeds ==
    (pc = "exited" /\ city_links # <<>>) => exit_status = Some(0)

\* A step of SpecSink that made a persist call
PersistStep == persist_calls' = persist_calls + 1

\* C11 -- Natural-key uniqueness: after any sequence of persist operations,
\* also one whose batch holds two schools with the same key, the table holds at
\* most one row per (name, address).
C11_NaturalKeyUnique ==
    \A r1, r2 \in driving_schools : Key(r1) = Key(r2) => r1 = r2

\* C12 -- Natural-key upsert: persisting a school whose (name, address) is
\* already stored leaves exactly one row with that key, and each enrichment
\* field of it is the incoming value when that is present and the stored value
\* otherwise.
C12_UpsertMergesFields ==
    [][(PersistStep /\ Len(last_batch') = 1) =>
          LET s == last_batch'[1]
          IN  \A r \in Matching(driving_schools, s) :
                \E r2 \in driving_schools' :
                    /\ Matching(driving_schools', s) = {r2}
                    /\ r2.phone = (IF s.phone # None THEN s.phone ELSE r.phone)
                    /\ r2.rating = (IF s.rating # None THEN s.rating ELSE r.rating)
      ]_sink_vars

\* C13 -- An upsert that hits a stored key leaves the row's key, its identity
\* and its creation timestamp as they were.
C13_UpsertFrame ==
    [][PersistStep =>
          \A r \in driving_schools :
              Key(r) \in Keys(last_batch') =>
                  \E r2 \in driving_schools' :
                      /\ r2.id = r.id
                      /\ Key(r2) = Key(r)
                      /\ r2.created_at = r.created_at
      ]_sink_vars

\* C14 -- Every school the incremental orchestrator persists has a rating that
\* is absent or within 0..5, whether it came from the listing or the detail page.
C14_StoredRatingInBounds ==
    backend = "incremental_scraper" =>
        \A r \in driving_schools :
            r.rating = None \/ (0 <= r.rating[1] /\ r.rating[1] <= 50)

\* C15 -- normalize_phone is idempotent: called on its own result it returns
\* that result, for the mobile, area-code, international and unrecognized
\* shapes alike.
C15_NormalizePhoneIdempotent ==
    (fn = "normalize_phone" /\ again # None) => again = result

\* C15 witness: a 10-digit area-code number was rewritten by the first call
\* and the second call was made
C15_Witness ==
    /\ fn = "normalize_phone"
    /\ again # None
    /\ arg.value # None
    /\ Len(digits_of(arg.value[1])) = 10
    /\ StartsWithAny(digits_of(arg.value[1]), AreaCodes)
    /\ result # arg.value

\* C16 -- clean_name is idempotent: called on its own result it returns that
\* result, also for a name that begins with more than one of the prefixes.
C16_CleanNameIdempotent ==
    (fn = "clean_name" /\ again # None) => again = result

\* C17 -- validate_phone, validate_email_address and validate_url return true
\* for None and for the empty string.
C17_AbsentIsValid ==
    (/\ fn \in {"validate_phone", "validate_email_address", "validate_url"}
     /\ result # None
     /\ Falsy(arg.value)) => result = Some(TRUE)

\* C18 -- validate_rating and validate_success_rate are true for None; for a
\* present value validate_rating is true exactly for 0 <= r <= 5 and
\* validate_success_rate exactly for 0 <= s <= 100.
C18_RangePredicates ==
    /\ (fn = "validate_rating" /\ result # None) =>
          result[1] = (arg.value = None \/ arg.value[1] \in 0..50)
    /\ (fn = "validate_success_rate" /\ result # None) =>
          result[1] = (arg.value = None \/ arg.value[1] \in 0..100)

\* C18 witness: the rating 5.0, on the upper bound, was found valid
C18_Witness ==
    /\ fn = "validate_rating"
    /\ arg.value = Some(50)
    /\ result = Some(TRUE)

\* The fields of the two schools of a similarity call that are present on both
BothPresent(key) == ~Falsy(arg.value[1][key]) /\ ~Falsy(arg.value[2][key])
WeightOfPresent ==
    (IF BothPresent("name") THEN 50 ELSE 0) + (IF BothPresent("address") THEN 30 ELSE 0)
    + (IF BothPresent("phone") THEN 20 ELSE 0)
CreditOfPresent ==
    (IF BothPresent("name") THEN name_credit(arg.value[1], arg.value[2]) ELSE 0)
    + (IF BothPresent("address") THEN address_credit(arg.value[1], arg.value[2]) ELSE 0)
    + (IF BothPresent("phone") THEN phone_credit(arg.value[1], arg.value[2]) ELSE 0)
\* A school with every field that is not present on both sides removed
OnlyShared(school) ==
    [key \in {"name", "address", "phone"} |->
        IF BothPresent(key) THEN school[key] ELSE None]

\* C19 -- Similarity is symmetric: calculate_similarity(a, b) equals
\* calculate_similarity(b, a), also when the addresses differ and match partly.
C19_SimilaritySymmetric ==
    (fn = "calculate_similarity" /\ again # None) => RatioEq(result[1], again[1])

\* C20 -- Denominator exclusion: the score is the sum of the credits over the
\* sum of the weights (0.5 name, 0.3 address, 0.2 phone) of exactly the fields
\* present on both schools; a field absent on either side changes neither; the
\* score lies in [0, 1] and is 0 when no field is present on both sides.
C20_DenominatorExclusion ==
    (fn = "calculate_similarity" /\ result # None) =>
        /\ WeightOfPresent > 0 =>
              RatioEq(result[1], Ratio(CreditOfPresent, WeightOfPresent))
        /\ WeightOfPresent = 0 => result[1].num = 0
        /\ RatioEq(result[1],
                   calculate_similarity(OnlyShared(arg.value[1]),
                                        OnlyShared(arg.value[2])))
        /\ 0 <= result[1].num
        /\ result[1].num <= result[1].den

\* C20 witness: the phone is missing on one side, name and address match
\* partly: the score is 0.45 / 0.8
C20_Witness ==
    /\ fn = "calculate_similarity"
    /\ result = Some(Ratio(45, 80))
    /\ arg.value[1].phone # None
    /\ arg.value[2].phone = None

\* The two schools of the phone-only case, and the lists made of them
AcmeSchool == SchoolRecord(Some(AcmeDriving), None, None, Some(MobileA), None, None, None, None)
BestSchool == SchoolRecord(Some(BestDriving), None, None, Some(MobileA), None, None, None, None)
PhoneOnlyCase == arg.value \in {<<AcmeSchool, BestSchool>>, <<BestSchool, AcmeSchool>>}

\* C21 (as claimed) -- Phone-only case: the schools "Acme Driving" and "Best
\* Driving", without address and with the same phone "0612345678", have
\* similarity 1.0 and find_duplicates(threshold 0.8) puts them in one group.
C21_PhoneOnlyGrouped ==
    (fn = "find_duplicates" /\ PhoneOnlyCase) =>
        /\ RatioEq(calculate_similarity(arg.value[1], arg.value[2]), Ratio(1, 1))
        /\ result = Some(<<(<<0, 1>>)>>)

\* C21 (amended) -- The names are present on both schools and differ, so the
\* name weight stays in the denominator: the similarity is 0.2 / 0.7 and
\* find_duplicates(threshold 0.8) returns no group for the two schools.
C21_PhoneOnlyNotGrouped ==
    (fn = "find_duplicates" /\ PhoneOnlyCase) =>
        /\ RatioEq(calculate_similarity(arg.value[1], arg.value[2]), Ratio(20, 70))
        /\ result = Some(<<>>)

\* C21 witness: find_duplicates returned for the list "Acme Driving", "Best
\* Driving"
C21_Witness ==
    /\ fn = "find_duplicates"
    /\ arg.value = <<AcmeSchool, BestSchool>>
    /\ result # None

\* The schools of a find_duplicates call, by index from 0, and the groups
\* returned
SchoolAt(i) == arg.value[i + 1]
Indices == 0..(Len(arg.value) - 1)
Groups == result[1]
Reaches(i, j) == AtLeast(calculate_similarity(SchoolAt(i), SchoolAt(j)), DefaultThreshold)
Grouped == UNION {Range(Groups[g]) : g \in DOMAIN Groups}

\* C22 -- Two schools with the same cleaned name and the same address score
\* at least 0.8 and are in one group of find_duplicates(threshold 0.8),
\* whatever their phones and whatever else is in the list.
C22_SameNameAddressGrouped ==
    (fn = "find_duplicates" /\ result # None) =>
        \A i, j \in Indices :
            (/\ i < j
             /\ ~Falsy(SchoolAt(i).name) /\ ~Falsy(SchoolAt(j).name)
             /\ clean_name(SchoolAt(i).name) = clean_name(SchoolAt(j).name)
             /\ ~Falsy(SchoolAt(i).address)
             /\ SchoolAt(i).address = SchoolAt(j).address)
            => /\ Reaches(i, j)
               /\ \E g \in DOMAIN Groups : {i, j} \subseteq Range(Groups[g])

\* What merge_duplicates returned for a list and its groups
Merged == again[1].merged_schools
CountedKeys == {"name", "address", "phone", "email", "website", "rating", "review_count"}
\* A field without a value: None, or the empty string.  The numbers 0 and 0.0
\* are values.
Absent(key, value) == value = None \/ (key \notin NumberKeys /\ value = Some(<<>>))
\* The number of fields of a school that are not absent, among the counted ones
Completeness(school) ==
    Cardinality({key \in CountedKeys : ~Absent(key, school[key])})
\* The member of a group with the highest count, the earliest on a tie
BaseOf(group) ==
    CHOOSE a \in DOMAIN group :
        /\ \A b \in DOMAIN group :
              Completeness(SchoolAt(group[b])) <= Completeness(SchoolAt(group[a]))
        /\ \A b \in 1..(a - 1) :
              Completeness(SchoolAt(group[b])) < Completeness(SchoolAt(group[a]))
\* The first value of a key that is not absent among the members, in group
\* order (the value of the base when there is none)
FirstPresent(group, key) ==
    LET having == {a \in DOMAIN group : ~Absent(key, SchoolAt(group[a])[key])}
    IN  IF having = {} THEN SchoolAt(group[BaseOf(group)])[key]
        ELSE SchoolAt(group[CHOOSE a \in having : \A b \in having : a <= b])[key]

\* C24 -- merge_duplicates builds the record of a group from the member with
\* the most fields that are not absent (the earliest on a tie), keeps every
\* field that is not absent on that member, rating 0 and review_count 0
\* included, and gives an absent field the first value that is not absent
\* among the members, in group order.
C24_MergeFillsAbsentOnly ==
    (fn = "find_duplicates" /\ again # None) =>
        \A g \in DOMAIN Groups :
            LET base == SchoolAt(Groups[g][BaseOf(Groups[g])])
            IN  \A key \in DOMAIN base :
                    Merged[g][key] = IF ~Absent(key, base[key]) THEN base[key]
                                     ELSE FirstPresent(Groups[g], key)

\* The groups opened before index i
OpenedBefore(i) == UNION {Range(Groups[g]) : g \in {h \in DOMAIN Groups : Groups[h][1] < i}}

\* C25 -- find_duplicates is one greedy pass: no index is in two groups, a
\* group has at least two members in ascending order, and the group opened
\* by i holds exactly i and the later indices that no earlier group took and
\* that reach the threshold against i; an index outside every group has no
\* such later index.
C25_GreedyPass ==
    (fn = "find_duplicates" /\ result # None) =>
        /\ \A g, h \in DOMAIN Groups :
              g # h => Range(Groups[g]) \cap Range(Groups[h]) = {}
        /\ \A g \in DOMAIN Groups :
              /\ Len(Groups[g]) >= 2
              /\ \A a, b \in DOMAIN Groups[g] : a < b => Groups[g][a] < Groups[g][b]
              /\ Range(Groups[g]) =
                    {Groups[g][1]} \cup
                    {j \in Indices : /\ j > Groups[g][1]
                                     /\ j \notin OpenedBefore(Groups[g][1])
                                     /\ Reaches(Groups[g][1], j)}
        /\ \A i \in Indices \ Grouped :
              \A j \in Indices : j > i /\ Reaches(i, j) => j \in OpenedBefore(i)

\* C25 witness: index 1 reaches the threshold against index 0, index 2 against
\* index 1 but not against index 0, and index 2 is left out of the group of 0
C25_Witness ==
    /\ fn = "find_duplicates"
    /\ result # None
    /\ Len(arg.value) = 3
    /\ Reaches(0, 1) /\ Reaches(1, 2) /\ ~Reaches(0, 2)
    /\ Groups = <<(<<0, 1>>)>>

\* C26 (as claimed) -- In every group find_duplicates returns, every two
\* members reach the threshold against each other.
C26_PairwiseSimilar ==
    (fn = "find_duplicates" /\ result # None) =>
        \A g \in DOMAIN Groups : \A i, j \in Range(Groups[g]) : i # j => Reaches(i, j)

\* C26 (amended) -- In every group find_duplicates returns, every member
\* reaches the threshold against the first member of the group.
C26_SimilarToFirst ==
    (fn = "find_duplicates" /\ result # None) =>
        \A g \in DOMAIN Groups :
            \A a \in 2..Len(Groups[g]) : Reaches(Groups[g][1], Groups[g][a])

\* C26 witness: a group of three whose second and third member do not reach
\* the threshold against each other
C26_Witness ==
    /\ fn = "find_duplicates"
    /\ result # None
    /\ \E g \in DOMAIN Groups :
          /\ Len(Groups[g]) = 3
          /\ ~Reaches(Groups[g][2], Groups[g][3])

\* The indices of no group, and the place of such an index among them
Ungrouped == Indices \ Grouped
PlaceOf(i) == Cardinality({u \in Ungrouped : u < i}) + 1
RECURSIVE SumOfSizes(_)
SumOfSizes(groups) ==
    IF groups = <<>> THEN 0 ELSE (Len(Head(groups)) - 1) + SumOfSizes(Tail(groups))

\* C27 -- merge_duplicates returns one record per group, in group order, each
\* made of values of that group's members, then the schools of no group,
\* unchanged and in list order: len(schools) minus the sum of (group size - 1)
\* records; the list it was given is as it was.
C27_MergeOutputShape ==
    (fn = "find_duplicates" /\ again # None) =>
        /\ Len(Merged) = Len(arg.value) - SumOfSizes(Groups)
        /\ \A g \in DOMAIN Groups : \A key \in DOMAIN Merged[g] :
              \E i \in Range(Groups[g]) : Merged[g][key] = SchoolAt(i)[key]
        /\ \A i \in Ungrouped : Merged[Len(Groups) + PlaceOf(i)] = SchoolAt(i)
        /\ again[1].school_dicts = arg.value

\* C27 witness: two groups were merged, the second one into a record that is
\* none of the schools of the list
C27_Witness ==
    /\ fn = "find_duplicates"
    /\ again # None
    /\ Len(Groups) = 2
    /\ Merged[2] \notin Range(arg.value)
    /\ Merged[1].name # Merged[2].name

\* The list scrape() returned holds the two schools of the end-to-end scenario
JansenScenario ==
    /\ Len(scrape_result) = 2
    /\ {scrape_result[1].name, scrape_result[2].name} = {Some(RijschoolJansen), Some(Jansen)}
    /\ scrape_result[1].address = Some(Meppel)
    /\ scrape_result[2].address = Some(Meppel)

\* C23 -- End to end: the schools "Rijschool Jansen" and "Jansen", both at
\* "Meppel", pass validation, are both cleaned to the name "Jansen", are put
\* in one group by find_duplicates(threshold 0.8) and merged into one record
\* that has a value for every field that is not absent on either of the two.
C23_EndToEnd ==
    (run_pc = "save" /\ JansenScenario) =>
        /\ Len(valid_schools) = 2
        /\ valid_schools[1].name = Some(Jansen)
        /\ valid_schools[2].name = Some(Jansen)
        /\ duplicate_groups = Some(<<(<<0, 1>>)>>)
        /\ Len(all_schools) = 1
        /\ \A key \in DOMAIN all_schools[1] :
              LET values == {valid_schools[i][key] : i \in 1..2}
                  present == {value \in values : ~Absent(key, value)}
              IN  present # {} => all_schools[1][key] \in present

\* C28 -- validate_school rejects a school exactly when its name is empty
\* (blank, or empty after cleaning); otherwise it returns true, sets each of
\* phone, email, website and rating that has a value and fails its predicate
\* to None, and leaves the fields that pass and all other fields as they
\* were.
C28_EntityValidation ==
    [][(run_pc = "validate" /\ school_pos <= Len(scrape_result)) =>
        LET before == scrape_result[school_pos]
            after == current_school'[1]
            rejected == run_pc' = "validate"
        IN  /\ rejected <=> clean_name(before.name) = <<>>
            /\ ~rejected =>
                  /\ after.phone = IF Falsy(before.phone) \/ validate_phone(before.phone)
                                   THEN before.phone ELSE None
                  /\ after.email \in {before.email} \cup
                                     (IF Falsy(before.email) THEN {} ELSE {None})
                  /\ after.website = IF Falsy(before.website)
                                        \/ validate_url(before.website)
                                     THEN before.website ELSE None
                  /\ after.rating = IF before.rating = None
                                       \/ before.rating[1] \in 0..50
                                    THEN before.rating ELSE None
                  /\ \A key \in {"name", "url", "address", "review_count"} :
                        after[key] = before[key]]_run_vars

\* C28 witness: a school with the rating 7.5 was accepted, its rating set to
\* None and its other fields kept
C28_Witness ==
    /\ run_pc = "clean"
    /\ scrape_result[school_pos] = [ListedSchool(RijschoolJansen) EXCEPT !.rating = Some(75)]
    /\ current_school = Some(ListedSchool(RijschoolJansen))

\* C30 -- Normalization preserves validity: a school that went through
\* validate_school and clean_school carries no phone that validate_phone
\* rejects.
C30_NormalizedPhoneValid ==
    \A i \in DOMAIN valid_schools :
        Falsy(valid_schools[i].phone) \/ validate_phone(valid_schools[i].phone)


\* the units whose batch could not be persisted in the previous run
SaveFailedPrev == {u \in Units : <<run - 1, u>> \in save_failed}

====
